---- MODULE Spec2Model ----
(***************************************************************************)
(* A model of the sandboxed expression evaluator of the scientific         *)
(* calculator (src/backend/engine.py): text preparation, the host parser   *)
(* (ast.parse, mode "eval") on the prepared text, SafeEvaluator's tree     *)
(* walk, and the CalculatorEngine facade with its angle mode.              *)
(*                                                                         *)
(* Texts are sequences of one-character strings.  Python strings built by  *)
(* the code (error messages) are sequences of fragments, f-string          *)
(* interpolation being concatenation.  Python floats are modelled as exact *)
(* rationals and the results of transcendental functions are kept as       *)
(* uninterpreted terms; a computation that leaves the range of the model   *)
(* (IntCap), or whose result would depend on the value of an uninterpreted *)
(* term, has the outcome Beyond, and the specifications draw no input that *)
(* leads there.                                                            *)
(***************************************************************************)
EXTENDS Integers, Sequences, FiniteSets, TLC

(***************************************************************************)
(* Bounds of the model                                                     *)
(***************************************************************************)
\* largest magnitude of a numerator / denominator computed exactly
IntCap == 30000
\* longest text drawn over the text alphabet
MaxLen == 4
\* most operators of an arithmetic expression drawn
MaxOps == 2
\* longest comparison chain (number of operands) drawn
MaxChain == 3
\* most arguments drawn for a call of mode
MaxArgs == 4

(***************************************************************************)
(* Python values                                                           *)
(***************************************************************************)
IntV(n) == [t |-> "int", i |-> n]
FloatV(n, d) == [t |-> "float", n |-> n, d |-> d]
BoolV(b) == [t |-> "bool", b |-> b]
StrV(s) == [t |-> "str", s |-> s]
ListV(es) == [t |-> "list", e |-> es]
TupleV(es) == [t |-> "tuple", e |-> es]
NoneV == [t |-> "none"]
\* an exception instance held as an ordinary value (not raised)
ExcV(ty, m) == [t |-> "exc", ty |-> ty, m |-> m]
\* the number the host computes for f applied to a; not computed by the model
SymV(f, a) == [t |-> "sym", f |-> f, a |-> a]

IsExact(v) == v.t \in {"int", "float", "bool"}
IsNumber(v) == v.t \in {"int", "float", "bool", "sym"}
IsIntLike(v) == v.t \in {"int", "bool"}
IsSeqV(v) == v.t \in {"list", "tuple"}

Abs(n) == IF n < 0 THEN -n ELSE n

RECURSIVE GCD(_, _)
GCD(a, b) == IF b = 0 THEN a ELSE GCD(b, a % b)

\* numerator and denominator of an exact number
NumOf(v) == IF v.t = "int" THEN v.i ELSE IF v.t = "bool" THEN (IF v.b THEN 1 ELSE 0) ELSE v.n
DenOf(v) == IF v.t = "float" THEN v.d ELSE 1

\* q rounded towards minus infinity, for d > 0
FloorDiv(n, d) == IF n >= 0 THEN n \div d ELSE -((-n + d - 1) \div d)

InRange(n) == Abs(n) <= IntCap

Ok(v) == [ok |-> TRUE, v |-> v]
Raise(ty, m) == [ok |-> FALSE, ty |-> ty, m |-> m]
\* an outcome the model does not compute: it depends on the value of an
\* uninterpreted number, or leaves the model's range of exact numbers
Beyond == Raise("Unmodelled", <<>>)

\* the exact number n/d (d # 0) as an int (isFloat = FALSE, d divides n) or a float
MkNum(isFloat, n, d) ==
    LET s == IF d < 0 THEN -1 ELSE 1
        g == GCD(Abs(n), Abs(d))
        nn == (s * n) \div g
        dd == (s * d) \div g
    IN  IF ~(InRange(nn) /\ InRange(dd)) THEN Beyond
        ELSE IF isFloat THEN Ok(FloatV(nn, dd)) ELSE Ok(IntV(nn))

\* acc * b ** e for an integer e >= 0; <<FALSE, 0>> when out of the model's range
RECURSIVE PowLoop(_, _, _)
PowLoop(b, e, acc) ==
    IF e = 0 THEN <<TRUE, acc>>
    ELSE IF ~InRange(acc * b) THEN <<FALSE, 0>>
    ELSE PowLoop(b, e - 1, acc * b)

\* b ** e for an integer e >= 0
IntPow(b, e) ==
    IF e = 0 THEN <<TRUE, 1>>
    ELSE IF b \in {0, 1} THEN <<TRUE, b>>
    ELSE IF b = -1 THEN <<TRUE, IF e % 2 = 0 THEN 1 ELSE -1>>
    ELSE PowLoop(b, e, 1)

\* the sequence s repeated k times
Repeat(s, k) ==
    IF k <= 0 \/ s = <<>> THEN <<>>
    ELSE [i \in 1..(Len(s) * k) |-> s[((i - 1) % Len(s)) + 1]]

\* does the value hold an uninterpreted number
RECURSIVE HasSym(_)
HasSym(v) ==
    IF v.t = "sym" THEN TRUE
    ELSE IF IsSeqV(v) THEN \E i \in 1..Len(v.e) : HasSym(v.e[i])
    ELSE FALSE

(***************************************************************************)
(* The host's operators on values (operator.add, ..., unary + - not, the   *)
(* comparisons).  Each yields Ok(value), Raise(exception class, message)   *)
(* or Beyond.                                                              *)
(***************************************************************************)
TypeMsg == <<"unsupported operand type(s)">>
ZeroMsg == <<"division by zero">>

\* truthiness (bool(v)) of a value that is not an uninterpreted number
Truthy(v) ==
    CASE v.t = "bool" -> v.b
      [] v.t = "int" -> v.i # 0
      [] v.t = "float" -> v.n # 0
      [] v.t = "str" -> v.s # <<>>
      [] v.t \in {"list", "tuple"} -> v.e # <<>>
      [] v.t = "none" -> FALSE
      [] OTHER -> TRUE

AnyFloat(l, r) == l.t = "float" \/ r.t = "float"

PyAdd(l, r) ==
    IF IsExact(l) /\ IsExact(r)
    THEN MkNum(AnyFloat(l, r), NumOf(l) * DenOf(r) + NumOf(r) * DenOf(l), DenOf(l) * DenOf(r))
    ELSE IF IsNumber(l) /\ IsNumber(r) THEN Ok(SymV("add", <<l, r>>))
    ELSE IF l.t = r.t /\ IsSeqV(l) THEN Ok([t |-> l.t, e |-> l.e \o r.e])
    ELSE IF l.t = "str" /\ r.t = "str" THEN Ok(StrV(l.s \o r.s))
    ELSE Raise("TypeError", TypeMsg)

PySub(l, r) ==
    IF IsExact(l) /\ IsExact(r)
    THEN MkNum(AnyFloat(l, r), NumOf(l) * DenOf(r) - NumOf(r) * DenOf(l), DenOf(l) * DenOf(r))
    ELSE IF IsNumber(l) /\ IsNumber(r) THEN Ok(SymV("sub", <<l, r>>))
    ELSE Raise("TypeError", TypeMsg)

\* sequence (or string) s repeated k times
SeqTimes(s, k) ==
    LET n == NumOf(k)
        body == IF s.t = "str" THEN s.s ELSE s.e
    IN  IF n * Len(body) > IntCap THEN Beyond
        ELSE IF s.t = "str" THEN Ok(StrV(Repeat(body, n)))
        ELSE Ok([t |-> s.t, e |-> Repeat(body, n)])

PyMul(l, r) ==
    IF IsExact(l) /\ IsExact(r)
    THEN MkNum(AnyFloat(l, r), NumOf(l) * NumOf(r), DenOf(l) * DenOf(r))
    ELSE IF IsNumber(l) /\ IsNumber(r) THEN Ok(SymV("mul", <<l, r>>))
    ELSE IF (IsSeqV(l) \/ l.t = "str") /\ IsIntLike(r) THEN SeqTimes(l, r)
    ELSE IF (IsSeqV(r) \/ r.t = "str") /\ IsIntLike(l) THEN SeqTimes(r, l)
    ELSE Raise("TypeError", TypeMsg)

PyTrueDiv(l, r) ==
    IF ~(IsNumber(l) /\ IsNumber(r)) THEN Raise("TypeError", TypeMsg)
    ELSE IF r.t = "sym" THEN Beyond
    ELSE IF NumOf(r) = 0 THEN Raise("ZeroDivisionError", ZeroMsg)
    ELSE IF l.t = "sym" THEN Ok(SymV("truediv", <<l, r>>))
    ELSE MkNum(TRUE, NumOf(l) * DenOf(r), DenOf(l) * NumOf(r))

\* floor(l / r) for exact l, r with r # 0
FloorQuot(l, r) ==
    LET n == NumOf(l) * DenOf(r)
        d == DenOf(l) * NumOf(r)
    IN  IF d > 0 THEN FloorDiv(n, d) ELSE FloorDiv(-n, -d)

PyFloorDiv(l, r) ==
    IF ~(IsNumber(l) /\ IsNumber(r)) THEN Raise("TypeError", TypeMsg)
    ELSE IF r.t = "sym" THEN Beyond
    ELSE IF NumOf(r) = 0 THEN Raise("ZeroDivisionError", ZeroMsg)
    ELSE IF l.t = "sym" THEN Ok(SymV("floordiv", <<l, r>>))
    ELSE MkNum(AnyFloat(l, r), FloorQuot(l, r), 1)

\* l % r = l - floor(l / r) * r
PyMod(l, r) ==
    IF IsNumber(l) /\ IsNumber(r)
    THEN IF r.t = "sym" THEN Beyond
         ELSE IF NumOf(r) = 0 THEN Raise("ZeroDivisionError", ZeroMsg)
         ELSE IF l.t = "sym" THEN Ok(SymV("mod", <<l, r>>))
         ELSE LET n == NumOf(l) * DenOf(r)
                  d == DenOf(l) * NumOf(r)
              IN  MkNum(AnyFloat(l, r), n - FloorQuot(l, r) * d, DenOf(l) * DenOf(r))
    \* printf-style formatting: only the empty tuple leaves a plain string alone
    ELSE IF l.t = "str" THEN (IF r = TupleV(<<>>) THEN Ok(l) ELSE Raise("TypeError", TypeMsg))
    ELSE Raise("TypeError", TypeMsg)

PyPow(l, r) ==
    IF ~(IsNumber(l) /\ IsNumber(r)) THEN Raise("TypeError", TypeMsg)
    ELSE IF l.t = "sym" \/ r.t = "sym" THEN Beyond
    ELSE IF NumOf(l) = 0 /\ NumOf(r) < 0 THEN Raise("ZeroDivisionError", ZeroMsg)
    ELSE IF DenOf(r) # 1
    THEN (IF NumOf(l) < 0 THEN Beyond
          ELSE IF NumOf(l) = 0 THEN Ok(FloatV(0, 1))
          ELSE Ok(SymV("pow", <<l, r>>)))
    ELSE LET e == NumOf(r)
             pn == IntPow(NumOf(l), Abs(e))
             pd == IntPow(DenOf(l), Abs(e))
         IN  IF ~(pn[1] /\ pd[1]) THEN Beyond
             ELSE IF e >= 0 THEN MkNum(AnyFloat(l, r), pn[2], pd[2])
             ELSE MkNum(TRUE, pd[2], pn[2])

PyPos(v) ==
    IF IsExact(v) THEN MkNum(v.t = "float", NumOf(v), DenOf(v))
    ELSE IF v.t = "sym" THEN Ok(v)
    ELSE Raise("TypeError", TypeMsg)

PyNeg(v) ==
    IF IsExact(v) THEN MkNum(v.t = "float", -NumOf(v), DenOf(v))
    ELSE IF v.t = "sym" THEN Ok(SymV("neg", <<v>>))
    ELSE Raise("TypeError", TypeMsg)

\* -1, 0, 1 as l is below, equal to, above r (exact numbers)
NumCmp(l, r) ==
    LET a == NumOf(l) * DenOf(r)
        b == NumOf(r) * DenOf(l)
    IN  IF a < b THEN -1 ELSE IF a = b THEN 0 ELSE 1

\* l == r, for values that hold no uninterpreted number
RECURSIVE PyEq(_, _)
PyEq(l, r) ==
    IF IsExact(l) /\ IsExact(r) THEN NumCmp(l, r) = 0
    ELSE IF l.t = r.t /\ IsSeqV(l)
    THEN Len(l.e) = Len(r.e) /\ \A i \in 1..Len(l.e) : PyEq(l.e[i], r.e[i])
    \* two exception objects are two instances
    ELSE IF l.t = r.t /\ l.t # "exc" THEN l = r
    ELSE FALSE

\* first index where the sequences differ, or 0
RECURSIVE FirstDiff(_, _, _)
FirstDiff(a, b, i) ==
    IF i > Len(a) \/ i > Len(b) THEN 0
    ELSE IF ~PyEq(a[i], b[i]) THEN i
    ELSE FirstDiff(a, b, i + 1)

\* l < r (strict = TRUE) or l <= r, for values that hold no uninterpreted number
RECURSIVE PyLess(_, _, _)
PyLess(l, r, strict) ==
    IF IsExact(l) /\ IsExact(r)
    THEN Ok(BoolV(IF strict THEN NumCmp(l, r) < 0 ELSE NumCmp(l, r) <= 0))
    ELSE IF l.t = r.t /\ IsSeqV(l)
    THEN LET i == FirstDiff(l.e, r.e, 1)
         IN  IF i = 0
             THEN Ok(BoolV(IF strict THEN Len(l.e) < Len(r.e) ELSE Len(l.e) <= Len(r.e)))
             ELSE PyLess(l.e[i], r.e[i], strict)
    ELSE IF l.t = "str" /\ r.t = "str"
    THEN (IF l = r THEN Ok(BoolV(~strict)) ELSE Beyond)
    ELSE Raise("TypeError", TypeMsg)

\* the six comparison operators of visit_Compare
PyCompare(op, l, r) ==
    IF HasSym(l) \/ HasSym(r) THEN Beyond
    ELSE CASE op = "Eq" -> Ok(BoolV(PyEq(l, r)))
           [] op = "NotEq" -> Ok(BoolV(~PyEq(l, r)))
           [] op = "Lt" -> PyLess(l, r, TRUE)
           [] op = "LtE" -> PyLess(l, r, FALSE)
           [] op = "Gt" -> PyLess(r, l, TRUE)
           [] op = "GtE" -> PyLess(r, l, FALSE)

(***************************************************************************)
(* Text preparation: expression.replace(" ", "").replace("^", "**")        *)
(***************************************************************************)
RemoveSpaces(text) == SelectSeq(text, LAMBDA c : c # " ")

\* the text preparation as it would be without the replacement of "^"
CaretKept(text) == text

RECURSIVE CaretToPower(_)
CaretToPower(text) ==
    IF text = <<>> THEN <<>>
    ELSE IF Head(text) = "^" THEN <<"*", "*">> \o CaretToPower(Tail(text))
    ELSE <<Head(text)>> \o CaretToPower(Tail(text))

PrepareText(expression) == CaretToPower(RemoveSpaces(expression))

(***************************************************************************)
(* The host tokenizer on the prepared text.  Tokens are NUM (with its      *)
(* value), NAME (with its characters), OP (with its lexeme) and ERR for a  *)
(* lexical error, after which nothing more is read.  Modelled characters:  *)
(* decimal digits, ASCII letters and "_", the operator characters, and a   *)
(* few characters that start no token.  Not modelled: string quotes, "."   *)
(* in numbers, and a number directly followed by a letter other than a     *)
(* keyword start (exponents, complex, hex/octal/binary literals, "_"       *)
(* digit groups); a text using them lexes to the token UNMODELLED.         *)
(***************************************************************************)
Digits == {"0", "1", "2", "3", "4", "5", "6", "7", "8", "9"}
NameStart == {"a", "b", "c", "d", "e", "f", "g", "h", "i", "j", "k", "l", "m",
              "n", "o", "p", "q", "r", "s", "t", "u", "v", "w", "x", "y", "z",
              "A", "B", "C", "D", "E", "F", "G", "H", "I", "J", "K", "L", "M",
              "N", "O", "P", "Q", "R", "S", "T", "U", "V", "W", "X", "Y", "Z", "_"}
NameChars == NameStart \cup Digits
OpChars == {"+", "-", "*", "/", "%", "(", ")", "[", "]", ",", "<", ">", "=", "!",
            ":", "&", "|", "~", "@", "{", "}", ";", "^"}
Ops3 == {<<"*", "*", "=">>, <<"/", "/", "=">>, <<"<", "<", "=">>, <<">", ">", "=">>}
Ops2 == {<<"*", "*">>, <<"/", "/">>, <<"<", "<">>, <<">", ">">>, <<"<", "=">>,
         <<">", "=">>, <<"=", "=">>, <<"!", "=">>, <<"-", ">">>, <<"+", "=">>,
         <<"-", "=">>, <<"*", "=">>, <<"/", "=">>, <<"%", "=">>, <<"&", "=">>,
         <<"|", "=">>, <<"^", "=">>, <<"@", "=">>, <<":", "=">>}

NumTok(v) == [k |-> "NUM", v |-> v]
NameTok(id) == [k |-> "NAME", id |-> id]
OpTok(s) == [k |-> "OP", s |-> s]
ErrTok == [k |-> "ERR"]
UnmodelledTok == [k |-> "UNMODELLED"]

\* first index >= i of text whose character is not in cls (Len + 1 if none)
RECURSIVE SpanEnd(_, _, _)
SpanEnd(text, i, cls) ==
    IF i > Len(text) \/ text[i] \notin cls THEN i ELSE SpanEnd(text, i + 1, cls)

\* value of the digits text[i..j-1]; -1 when beyond IntCap
RECURSIVE DecimalVal(_, _, _)
DecimalVal(text, i, j) ==
    IF j <= i THEN 0
    ELSE LET hi == DecimalVal(text, i, j - 1)
             c == text[j - 1]
             digit == CASE c = "0" -> 0 [] c = "1" -> 1 [] c = "2" -> 2 [] c = "3" -> 3
                        [] c = "4" -> 4 [] c = "5" -> 5 [] c = "6" -> 6 [] c = "7" -> 7
                        [] c = "8" -> 8 [] c = "9" -> 9
         IN  IF hi < 0 \/ hi * 10 + digit > IntCap THEN -1 ELSE hi * 10 + digit

StartsWithAt(text, i, w) ==
    i + Len(w) - 1 <= Len(text) /\ SubSeq(text, i, i + Len(w) - 1) = w

\* the token of the decimal integer text[i..j-1]
NumberToken(text, i, j) ==
    LET v == DecimalVal(text, i, j)
        \* the host keywords a number may be directly followed by
        KeywordStarts == {<<"a", "n", "d">>, <<"e", "l", "s", "e">>, <<"f", "o", "r">>,
                          <<"i", "f">>, <<"i", "n">>, <<"i", "s">>, <<"n", "o", "t">>,
                          <<"o", "r">>}
        allZero == \A p \in i..(j - 1) : text[p] = "0"
    IN  IF j <= Len(text) /\ text[j] = "." THEN UnmodelledTok
        ELSE IF j <= Len(text) /\ text[j] \in NameStart
        THEN (IF text[j] \in {"e", "E", "j", "J", "_", "x", "X", "o", "O", "b", "B"}
              THEN UnmodelledTok
              ELSE IF \E w \in KeywordStarts : StartsWithAt(text, j, w)
              THEN (IF text[i] = "0" /\ j - i > 1 /\ ~allZero THEN ErrTok
                    ELSE (IF v < 0 THEN UnmodelledTok ELSE NumTok(IntV(v))))
              ELSE ErrTok)
        \* leading zeros in a nonzero decimal integer are not permitted
        ELSE IF text[i] = "0" /\ j - i > 1 /\ ~allZero THEN ErrTok
        ELSE (IF v < 0 THEN UnmodelledTok ELSE NumTok(IntV(v)))

RECURSIVE Tokenize(_, _)
Tokenize(text, i) ==
    IF i > Len(text) THEN <<>>
    ELSE LET c == text[i]
         IN  IF c \in Digits
             THEN LET j == SpanEnd(text, i, Digits)
                      tok == NumberToken(text, i, j)
                  IN  IF tok.k = "NUM" THEN <<tok>> \o Tokenize(text, j) ELSE <<tok>>
             ELSE IF c \in NameStart
             THEN LET j == SpanEnd(text, i, NameChars)
                  IN  <<NameTok(SubSeq(text, i, j - 1))>> \o Tokenize(text, j)
             ELSE IF c \in {".", "'", "\"", "#", "\\"} THEN <<UnmodelledTok>>
             ELSE IF \E w \in Ops3 : StartsWithAt(text, i, w)
             THEN <<OpTok(SubSeq(text, i, i + 2))>> \o Tokenize(text, i + 3)
             ELSE IF \E w \in Ops2 : StartsWithAt(text, i, w)
             THEN <<OpTok(SubSeq(text, i, i + 1))>> \o Tokenize(text, i + 2)
             ELSE IF c \in OpChars \ {"!"} THEN <<OpTok(<<c>>)>> \o Tokenize(text, i + 1)
             ELSE <<ErrTok>>

(***************************************************************************)
(* The host parser, ast.parse(expr, mode="eval"), on the token sequence:   *)
(* the expression grammar of the host language, restricted to the tokens   *)
(* the tokenizer above yields.  Not modelled (the parse is UNMODELLED):    *)
(* the keywords other than and / or / not / True / False / None, and the   *)
(* tokens ":", ":=", "{", "}", ";".                                        *)
(***************************************************************************)
Constant(v) == [k |-> "Constant", value |-> v]
Name(id) == [k |-> "Name", id |-> id]
UnaryOp(op, operand) == [k |-> "UnaryOp", op |-> op, operand |-> operand]
BinOp(left, op, right) == [k |-> "BinOp", left |-> left, op |-> op, right |-> right]
BoolOp(op, values) == [k |-> "BoolOp", op |-> op, values |-> values]
Compare(left, ops, comparators) ==
    [k |-> "Compare", left |-> left, ops |-> ops, comparators |-> comparators]
Call(func, args, keywords) == [k |-> "Call", func |-> func, args |-> args, keywords |-> keywords]
List(elts) == [k |-> "List", elts |-> elts]
Tuple(elts) == [k |-> "Tuple", elts |-> elts]
Starred(value) == [k |-> "Starred", value |-> value]
Subscript(value, slice) == [k |-> "Subscript", value |-> value, slice |-> slice]

UnmodelledKeywords ==
    {<<"a", "s">>, <<"a", "s", "s", "e", "r", "t">>, <<"a", "s", "y", "n", "c">>,
     <<"a", "w", "a", "i", "t">>, <<"b", "r", "e", "a", "k">>, <<"c", "l", "a", "s", "s">>,
     <<"c", "o", "n", "t", "i", "n", "u", "e">>, <<"d", "e", "f">>, <<"d", "e", "l">>,
     <<"e", "l", "i", "f">>, <<"e", "l", "s", "e">>, <<"e", "x", "c", "e", "p", "t">>,
     <<"f", "i", "n", "a", "l", "l", "y">>, <<"f", "o", "r">>, <<"f", "r", "o", "m">>,
     <<"g", "l", "o", "b", "a", "l">>, <<"i", "f">>, <<"i", "m", "p", "o", "r", "t">>,
     <<"i", "n">>, <<"i", "s">>, <<"l", "a", "m", "b", "d", "a">>,
     <<"n", "o", "n", "l", "o", "c", "a", "l">>, <<"p", "a", "s", "s">>,
     <<"r", "a", "i", "s", "e">>, <<"r", "e", "t", "u", "r", "n">>, <<"t", "r", "y">>,
     <<"w", "h", "i", "l", "e">>, <<"w", "i", "t", "h">>, <<"y", "i", "e", "l", "d">>}
UnmodelledOps == {<<":">>, <<":", "=">>, <<"{">>, <<"}">>, <<";">>}

EndTok == [k |-> "END"]
TokAt(toks, i) == IF i <= Len(toks) THEN toks[i] ELSE EndTok
IsOp(tok, s) == tok.k = "OP" /\ tok.s = s
IsKw(tok, w) == tok.k = "NAME" /\ tok.id = w

Parsed(node, pos) == [ok |-> TRUE, node |-> node, pos |-> pos]
NoParse == [ok |-> FALSE]

\* binding levels, loosest first: 1 or, 2 and, 3 not, 4 comparison, 5 |, 6 ^, 7 &,
\* 8 shifts, 9 sums, 10 terms, 11 unary + - ~, 12 power
LevelNot == 3
LevelUnary == 11

BinOpName(s) ==
    CASE s = <<"|">> -> "BitOr" [] s = <<"^">> -> "BitXor" [] s = <<"&">> -> "BitAnd"
      [] s = <<"<", "<">> -> "LShift" [] s = <<">", ">">> -> "RShift"
      [] s = <<"+">> -> "Add" [] s = <<"-">> -> "Sub" [] s = <<"*">> -> "Mult"
      [] s = <<"/">> -> "Div" [] s = <<"/", "/">> -> "FloorDiv" [] s = <<"%">> -> "Mod"
      [] s = <<"@">> -> "MatMult" [] s = <<"*", "*">> -> "Pow"

CmpOps == {<<"=", "=">>, <<"!", "=">>, <<"<">>, <<"<", "=">>, <<">">>, <<">", "=">>}
CmpOpName(s) ==
    CASE s = <<"=", "=">> -> "Eq" [] s = <<"!", "=">> -> "NotEq" [] s = <<"<">> -> "Lt"
      [] s = <<"<", "=">> -> "LtE" [] s = <<">">> -> "Gt" [] s = <<">", "=">> -> "GtE"

\* the binding level of a token read as an infix operator; 0 when it is none
InfixLevel(tok) ==
    IF tok.k = "NAME"
    THEN (IF tok.id = <<"o", "r">> THEN 1 ELSE IF tok.id = <<"a", "n", "d">> THEN 2 ELSE 0)
    ELSE IF tok.k # "OP" THEN 0
    ELSE IF tok.s \in CmpOps THEN 4
    ELSE IF tok.s = <<"|">> THEN 5
    ELSE IF tok.s = <<"^">> THEN 6
    ELSE IF tok.s = <<"&">> THEN 7
    ELSE IF tok.s \in {<<"<", "<">>, <<">", ">">>} THEN 8
    ELSE IF tok.s \in {<<"+">>, <<"-">>} THEN 9
    ELSE IF tok.s \in {<<"*">>, <<"/">>, <<"/", "/">>, <<"%">>, <<"@">>} THEN 10
    ELSE IF tok.s = <<"*", "*">> THEN 12
    ELSE 0

\* the chain an infix operator builds: a or b or c is one BoolOp, a < b < c one
\* Compare; "" for the binary operators
ChainOf(tok) ==
    IF tok.k = "NAME" THEN (IF tok.id = <<"o", "r">> THEN "Or" ELSE "And")
    ELSE IF tok.s \in CmpOps THEN "Compare"
    ELSE ""

\* the node for left <infix> right; chain names the chain that left was built
\* as by the operators just read, "" if none ((a < b) < c is not one chain)
Combine(left, tok, right, chain) ==
    IF ChainOf(tok) \in {"Or", "And"}
    THEN (IF chain = ChainOf(tok) THEN BoolOp(chain, Append(left.values, right))
          ELSE BoolOp(ChainOf(tok), <<left, right>>))
    ELSE IF ChainOf(tok) = "Compare"
    THEN (IF chain = "Compare"
          THEN Compare(left.left, Append(left.ops, CmpOpName(tok.s)),
                       Append(left.comparators, right))
          ELSE Compare(left, <<CmpOpName(tok.s)>>, <<right>>))
    ELSE BinOp(left, BinOpName(tok.s), right)

NoElems == [elts |-> <<>>, kws |-> <<>>, commas |-> 0]

RECURSIVE ParseExpr(_, _, _), ParseInfix(_, _, _, _, _)
RECURSIVE ParsePrimaryLoop(_, _, _), ParseAtom(_, _), ParseElems(_, _, _, _, _)

\* an expression whose operators all bind at least as tightly as level min:
\*   disjunction: conjunction ('or' conjunction)*
\*   conjunction: inversion ('and' inversion)*
\*   inversion: 'not' inversion | comparison
\*   comparison: bitwise_or (compare_op bitwise_or)*
\*   bitwise_or ... sum, term: left-associative
\*   factor: '+' factor | '-' factor | '~' factor | power
\*   power: primary ['**' factor]
ParseExpr(toks, i, min) ==
    LET tok == TokAt(toks, i)
        \* the prefix operator the expression starts with, "" if none
        op == IF IsKw(tok, <<"n", "o", "t">>) THEN "Not"
              ELSE IF IsOp(tok, <<"+">>) THEN "UAdd"
              ELSE IF IsOp(tok, <<"-">>) THEN "USub"
              ELSE IF IsOp(tok, <<"~">>) THEN "Invert"
              ELSE ""
        Primary(a) == IF a.ok THEN ParsePrimaryLoop(toks, a.node, a.pos) ELSE NoParse
        \* after the first operand r, the infix operators that follow it
        Infix(r) ==
            IF ~r.ok THEN NoParse
            ELSE ParseInfix(toks, IF op = "" THEN r.node ELSE UnaryOp(op, r.node), r.pos,
                            min, "")
    IN  IF op = "Not" /\ min > LevelNot THEN NoParse
        ELSE Infix(IF op = "" THEN Primary(ParseAtom(toks, i))
                   ELSE ParseExpr(toks, i + 1, IF op = "Not" THEN LevelNot ELSE LevelUnary))

\* the infix operators that follow the operand left, while they bind at least as
\* tightly as min
ParseInfix(toks, left, i, min, chain) ==
    LET tok == TokAt(toks, i)
        level == InfixLevel(tok)
        Rest(r) ==
            IF ~r.ok THEN NoParse
            ELSE ParseInfix(toks, Combine(left, tok, r.node, chain), r.pos, min, ChainOf(tok))
    IN  IF level = 0 \/ level < min THEN Parsed(left, i)
        \* the right operand is read one level tighter; power: primary ['**' factor]
        ELSE Rest(ParseExpr(toks, i + 1, IF level = 12 THEN LevelUnary ELSE level + 1))

\* primary: primary '(' [arguments] ')' | primary '[' slices ']' | atom
ParsePrimaryLoop(toks, node, i) ==
    LET isCall == IsOp(TokAt(toks, i), <<"(">>)
        Rest(a) ==
            IF ~a.ok THEN NoParse
            ELSE IF isCall THEN ParsePrimaryLoop(toks, Call(node, a.node.elts, a.node.kws), a.pos)
            ELSE IF a.node.elts = <<>> THEN NoParse
            ELSE ParsePrimaryLoop(toks,
                     Subscript(node, IF a.node.commas = 0 THEN a.node.elts[1]
                                     ELSE Tuple(a.node.elts)), a.pos)
    IN  IF isCall \/ IsOp(TokAt(toks, i), <<"[">>)
        THEN Rest(ParseElems(toks, i + 1, IF isCall THEN <<")">> ELSE <<"]">>, isCall, NoElems))
        ELSE Parsed(node, i)

\* atom: NAME | True | False | None | NUMBER | group | tuple | list
ParseAtom(toks, i) ==
    LET tok == TokAt(toks, i)
        isGroup == IsOp(tok, <<"(">>)
        Bracketed(a) ==
            IF ~a.ok THEN NoParse
            ELSE IF ~isGroup THEN Parsed(List(a.node.elts), a.pos)
            ELSE IF a.node.commas = 0 /\ Len(a.node.elts) = 1
            THEN (IF a.node.elts[1].k = "Starred" THEN NoParse
                  ELSE Parsed(a.node.elts[1], a.pos))
            ELSE Parsed(Tuple(a.node.elts), a.pos)
    IN  IF tok.k = "NUM" THEN Parsed(Constant(tok.v), i + 1)
        ELSE IF tok.k = "NAME"
        THEN (IF tok.id = <<"T", "r", "u", "e">> THEN Parsed(Constant(BoolV(TRUE)), i + 1)
              ELSE IF tok.id = <<"F", "a", "l", "s", "e">> THEN Parsed(Constant(BoolV(FALSE)), i + 1)
              ELSE IF tok.id = <<"N", "o", "n", "e">> THEN Parsed(Constant(NoneV), i + 1)
              ELSE IF tok.id \in {<<"a", "n", "d">>, <<"o", "r">>, <<"n", "o", "t">>} THEN NoParse
              ELSE Parsed(Name(tok.id), i + 1))
        ELSE IF isGroup \/ IsOp(tok, <<"[">>)
        THEN Bracketed(ParseElems(toks, i + 1, IF isGroup THEN <<")">> ELSE <<"]">>, FALSE,
                                  NoElems))
        ELSE NoParse

\* the elements up to the closing bracket: expressions and starred expressions,
\* in a call also keyword arguments (after which no positional argument may come);
\* a comma may follow the last element
ParseElems(toks, i, closer, isCall, acc) ==
    LET tok == TokAt(toks, i)
        kw == isCall /\ tok.k = "NAME" /\ IsOp(TokAt(toks, i + 1), <<"=">>)
        dstar == isCall /\ IsOp(tok, <<"*", "*">>)
        star == IsOp(tok, <<"*">>)
        Rest(e) ==
            LET acc2 == IF kw THEN [acc EXCEPT !.kws = Append(@, [arg |-> tok.id, value |-> e.node])]
                        ELSE IF dstar THEN [acc EXCEPT !.kws = Append(@, [arg |-> <<>>, value |-> e.node])]
                        ELSE IF star THEN [acc EXCEPT !.elts = Append(@, Starred(e.node))]
                        ELSE [acc EXCEPT !.elts = Append(@, e.node)]
            IN  IF ~e.ok THEN NoParse
                ELSE IF kw /\ tok.id \in {<<"T", "r", "u", "e">>, <<"F", "a", "l", "s", "e">>,
                                          <<"N", "o", "n", "e">>, <<"a", "n", "d">>,
                                          <<"o", "r">>, <<"n", "o", "t">>} THEN NoParse
                ELSE IF ~kw /\ ~dstar /\ ~star /\ acc.kws # <<>> THEN NoParse
                ELSE IF IsOp(TokAt(toks, e.pos), closer) THEN Parsed(acc2, e.pos + 1)
                ELSE IF IsOp(TokAt(toks, e.pos), <<",">>)
                THEN ParseElems(toks, e.pos + 1, closer, isCall, [acc2 EXCEPT !.commas = @ + 1])
                ELSE NoParse
    IN  IF IsOp(tok, closer) THEN Parsed(acc, i + 1)
        ELSE Rest(ParseExpr(toks, IF kw THEN i + 2 ELSE IF dstar \/ star THEN i + 1 ELSE i, 1))

\* expressions: expression (',' expression)* [','], up to the end of the text
RECURSIVE ParseTop(_, _, _, _)
ParseTop(toks, i, elts, commas) ==
    LET Rest(e) ==
            IF ~e.ok THEN NoParse
            ELSE IF e.pos > Len(toks)
            THEN Parsed(IF commas = 0 THEN e.node ELSE Tuple(Append(elts, e.node)), e.pos)
            ELSE IF IsOp(TokAt(toks, e.pos), <<",">>)
            THEN (IF e.pos = Len(toks) THEN Parsed(Tuple(Append(elts, e.node)), e.pos + 1)
                  ELSE ParseTop(toks, e.pos + 1, Append(elts, e.node), commas + 1))
            ELSE NoParse
    IN  Rest(ParseExpr(toks, i, 1))

\* ast.parse(expr, mode="eval"): the tree, a SyntaxError, or a text beyond the model
AstParse(expr) ==
    LET IsUnmodelledTok(tok) ==
            \/ tok.k = "UNMODELLED"
            \/ tok.k = "NAME" /\ tok.id \in UnmodelledKeywords
            \/ tok.k = "OP" /\ tok.s \in UnmodelledOps
        Tree(r) == IF r.ok THEN [st |-> "ok", node |-> [k |-> "Expression", body |-> r.node]]
                   ELSE [st |-> "SyntaxError"]
        Parse(toks) ==
            IF \E i \in 1..Len(toks) : IsUnmodelledTok(toks[i]) THEN [st |-> "unmodelled"]
            ELSE IF \E i \in 1..Len(toks) : toks[i].k = "ERR" THEN [st |-> "SyntaxError"]
            ELSE Tree(ParseTop(toks, 1, <<>>, 0))
    IN  Parse(Tokenize(expr, 1))

(***************************************************************************)
(* SafeEvaluator.  Visit(node, env, log) is the visit of one node with the *)
(* tables env.funcs and env.names; log is the sequence of events so far    *)
(* (node visits, operator applications, native calls).  The result is      *)
(* [ok |-> TRUE, v, log] or, for a raised exception, [ok |-> FALSE, ty, m, *)
(* log] with the exception's class ty and message m.                       *)
(***************************************************************************)
\* str.lower()
LowerStr(id) ==
    LET Lower(c) ==
            CASE c = "A" -> "a" [] c = "B" -> "b" [] c = "C" -> "c" [] c = "D" -> "d"
              [] c = "E" -> "e" [] c = "F" -> "f" [] c = "G" -> "g" [] c = "H" -> "h"
              [] c = "I" -> "i" [] c = "J" -> "j" [] c = "K" -> "k" [] c = "L" -> "l"
              [] c = "M" -> "m" [] c = "N" -> "n" [] c = "O" -> "o" [] c = "P" -> "p"
              [] c = "Q" -> "q" [] c = "R" -> "r" [] c = "S" -> "s" [] c = "T" -> "t"
              [] c = "U" -> "u" [] c = "V" -> "v" [] c = "W" -> "w" [] c = "X" -> "x"
              [] c = "Y" -> "y" [] c = "Z" -> "z" [] OTHER -> c
    IN  [i \in 1..Len(id) |-> Lower(id[i])]

Done(v, log) == [ok |-> TRUE, v |-> v, log |-> log]
Raised(ty, m, log) == [ok |-> FALSE, ty |-> ty, m |-> m, log |-> log]

VisitEv(node) == [e |-> "visit", node |-> node]
OpEv(op, args) == [e |-> "op", op |-> op, args |-> args]
CallEv(f, args) == [e |-> "call", f |-> f, args |-> args]

\* the ops table of visit_BinOp
SupportedBinOps == {"Add", "Sub", "Mult", "Div", "FloorDiv", "Mod", "Pow"}
ApplyBinOp(op, l, r) ==
    CASE op = "Add" -> PyAdd(l, r)
      [] op = "Sub" -> PySub(l, r)
      [] op = "Mult" -> PyMul(l, r)
      [] op = "Div" -> PyTrueDiv(l, r)
      [] op = "FloorDiv" -> PyFloorDiv(l, r)
      [] op = "Mod" -> PyMod(l, r)
      [] op = "Pow" -> PyPow(l, r)

(***************************************************************************)
(* The native functions behind the function table (math, statistics,       *)
(* random and builtins of the host).  Each takes the tuple of evaluated    *)
(* arguments and yields Ok(value), Raise(exception class, message) or      *)
(* Beyond.  An uninterpreted number stands for a float of ordinary         *)
(* magnitude whose value, and so whose sign, the model does not know.      *)
(***************************************************************************)
ArityMsg == <<"wrong number of arguments">>
RealMsg == <<"must be real number">>
DomainMsg == <<"math domain error">>

IsZero(v) == IsExact(v) /\ NumOf(v) = 0
\* math.pi and math.e
KnownPositive(v) == v.t = "sym" /\ v.f \in {"pi", "e"}

\* r, and then F of its value when r is a value
Then(r, F(_)) == IF r.ok THEN F(r.v) ELSE r

\* math.radians
Radians(x) == IF IsZero(x) THEN FloatV(0, 1) ELSE SymV("radians", <<x>>)

\* math.sin, math.cos, math.tan on a real number
MathTrig(f, a) ==
    IF IsZero(a) THEN FloatV(IF f = "cos" THEN 1 ELSE 0, 1) ELSE SymV(f, <<a>>)

\* the largest k with k * k <= n, for 0 <= n <= IntCap
ISqrt(n) == CHOOSE k \in 0..174 : k * k <= n /\ (k + 1) * (k + 1) > n

\* math.sqrt of one real number
SqrtOf(x) ==
    IF ~IsNumber(x) THEN Raise("TypeError", RealMsg)
    ELSE IF x.t = "sym" THEN (IF KnownPositive(x) THEN Ok(SymV("sqrt", <<x>>)) ELSE Beyond)
    ELSE IF NumOf(x) < 0 THEN Raise("ValueError", DomainMsg)
    ELSE IF ISqrt(NumOf(x)) * ISqrt(NumOf(x)) = NumOf(x)
            /\ ISqrt(DenOf(x)) * ISqrt(DenOf(x)) = DenOf(x)
    THEN Ok(FloatV(ISqrt(NumOf(x)), ISqrt(DenOf(x))))
    ELSE Ok(SymV("sqrt", <<x>>))

MathSqrt(args) == IF Len(args) # 1 THEN Raise("TypeError", ArityMsg) ELSE SqrtOf(args[1])

\* the logarithm (f is log or log10) of one real number
LogOf(f, x) ==
    IF ~IsNumber(x) THEN Raise("TypeError", RealMsg)
    ELSE IF x.t = "sym" THEN (IF KnownPositive(x) THEN Ok(SymV(f, <<x>>)) ELSE Beyond)
    ELSE IF NumOf(x) <= 0 THEN Raise("ValueError", DomainMsg)
    ELSE IF NumOf(x) = DenOf(x) THEN Ok(FloatV(0, 1))
    ELSE Ok(SymV(f, <<x>>))

\* math.log(x, base): log(x) / log(base)
MathLog2(x, base) ==
    LET num == LogOf("log", x)
        den == LogOf("log", base)
    IN  IF ~num.ok THEN num
        ELSE IF ~den.ok THEN den
        ELSE IF IsZero(den.v) THEN Raise("ZeroDivisionError", <<"float division by zero">>)
        ELSE IF IsZero(num.v) THEN Ok(FloatV(0, 1))
        ELSE Ok(SymV("log", <<x, base>>))

\* "log": lambda *a: math.log10(a[0]) if len(a) == 1 else math.log(a[0], a[1])
FnLog(args) ==
    IF Len(args) = 1 THEN LogOf("log10", args[1])
    ELSE IF Len(args) = 0 THEN Raise("IndexError", <<"tuple index out of range">>)
    ELSE MathLog2(args[1], args[2])

\* "ln": math.log
FnLn(args) ==
    IF Len(args) = 1 THEN LogOf("log", args[1])
    ELSE IF Len(args) = 2 THEN MathLog2(args[1], args[2])
    ELSE Raise("TypeError", ArityMsg)

\* the statistics module's sum of the data: a TypeError unless all are numbers
RECURSIVE SumOf(_, _)
SumOf(args, acc) ==
    IF args = <<>> THEN Ok(acc)
    ELSE IF ~IsNumber(Head(args)) THEN Raise("TypeError", <<"can't convert type">>)
    ELSE LET r == PyAdd(acc, Head(args))
         IN  IF r.ok THEN SumOf(Tail(args), r.v) ELSE r

\* the statistics module's result type: an int when the data are ints and the
\* value is integral, else a float
StatNum(args, q) ==
    IF q.t = "float" /\ q.d = 1 /\ \A i \in 1..Len(args) : IsIntLike(args[i])
    THEN IntV(q.n) ELSE q

\* statistics.mean
StatMean(args) ==
    IF args = <<>> THEN Raise("StatisticsError", <<"mean requires at least one data point">>)
    ELSE Then(SumOf(args, IntV(0)), LAMBDA total :
         Then(PyTrueDiv(total, IntV(Len(args))), LAMBDA q : Ok(StatNum(args, q))))

\* the sum of the squared deviations from the mean m
RECURSIVE SumSq(_, _, _)
SumSq(args, m, acc) ==
    IF args = <<>> THEN Ok(acc)
    ELSE Then(PySub(Head(args), m), LAMBDA dv :
         Then(PyMul(dv, dv), LAMBDA sq :
         Then(PyAdd(acc, sq), LAMBDA acc2 : SumSq(Tail(args), m, acc2))))

\* statistics.variance (sample variance)
StatVariance(args) ==
    IF Len(args) < 2
    THEN Raise("StatisticsError", <<"variance requires at least two data points">>)
    ELSE Then(SumOf(args, IntV(0)), LAMBDA total :
         Then(PyTrueDiv(total, IntV(Len(args))), LAMBDA m :
         Then(SumSq(args, m, IntV(0)), LAMBDA ss :
         Then(PyTrueDiv(ss, IntV(Len(args) - 1)), LAMBDA q : Ok(StatNum(args, q))))))

\* statistics.stdev: the square root of the variance, a float
StatStdev(args) ==
    Then(StatVariance(args), LAMBDA var :
        IF var.t = "sym" THEN Ok(SymV("sqrt", <<var>>)) ELSE SqrtOf(var))

\* the index of the smallest element (by item < best) or, for largest, of the
\* largest one (by item > best), first among equals; 0 when two of the elements
\* compared cannot be ordered
RECURSIVE ExtremeIndex(_, _, _, _)
ExtremeIndex(args, best, i, largest) ==
    IF i > Len(args) THEN best
    ELSE LET c == IF largest THEN PyLess(args[best], args[i], TRUE)
                  ELSE PyLess(args[i], args[best], TRUE)
         IN  IF ~c.ok THEN 0
             ELSE ExtremeIndex(args, IF c.v.b THEN i ELSE best, i + 1, largest)

\* are comparisons among the values beyond the model: one holds an uninterpreted
\* number, or two are strings that differ
BeyondOrder(args) ==
    /\ Len(args) >= 2
    /\ \/ \E i \in 1..Len(args) : HasSym(args[i])
       \/ \E i, j \in 1..Len(args) : i # j /\ PyLess(args[i], args[j], TRUE) = Beyond

\* min(a) and, for largest, max(a) of the argument tuple
FnMinMax(args, largest) ==
    IF args = <<>> THEN Raise("ValueError", <<IF largest THEN "max()" ELSE "min()", " arg is an empty sequence">>)
    ELSE IF BeyondOrder(args) THEN Beyond
    ELSE IF ExtremeIndex(args, 1, 2, largest) = 0 THEN Raise("TypeError", TypeMsg)
    ELSE Ok(args[ExtremeIndex(args, 1, 2, largest)])

\* sorted(data) for data that can be ordered: the smallest first, stable
RECURSIVE Sorted(_)
Sorted(args) ==
    IF args = <<>> THEN <<>>
    ELSE LET i == ExtremeIndex(args, 1, 2, FALSE)
         IN  <<args[i]>> \o Sorted(SubSeq(args, 1, i - 1) \o SubSeq(args, i + 1, Len(args)))

Orderable(args) == \A i, j \in 1..Len(args) : i = j \/ PyLess(args[i], args[j], TRUE).ok

\* statistics.median
StatMedian(args) ==
    LET n == Len(args)
        data == Sorted(args)
    IN  IF n = 0 THEN Raise("StatisticsError", <<"no median for empty data">>)
        ELSE IF BeyondOrder(args) THEN Beyond
        ELSE IF ~Orderable(args)
        \* the sort compares only some of the pairs
        THEN (IF n = 2 \/ \A i \in 1..n : ~IsSeqV(args[i]) THEN Raise("TypeError", TypeMsg)
              ELSE Beyond)
        ELSE IF n % 2 = 1 THEN Ok(data[(n \div 2) + 1])
        ELSE Then(PyAdd(data[n \div 2], data[(n \div 2) + 1]), LAMBDA total :
                  PyTrueDiv(total, IntV(2)))

RECURSIVE Hashable(_)
Hashable(v) ==
    IF v.t = "list" THEN FALSE
    ELSE IF v.t = "tuple" THEN \A i \in 1..Len(v.e) : Hashable(v.e[i])
    ELSE TRUE

\* statistics.mode.  Hosts before version 3.8 raise StatisticsError unless exactly
\* one value is the most common; later hosts return the first of the most common
\* values met and raise only for empty data.
StatMode(data, tieRaises) ==
    LET \* are data[i] and data[j] the same key of the counter
        SameKey(i, j) == i = j \/ PyEq(data[i], data[j])
        Count(i) == Cardinality({j \in 1..Len(data) : SameKey(i, j)})
        top == {i \in 1..Len(data) : \A j \in 1..Len(data) : Count(j) <= Count(i)}
        first == CHOOSE i \in top : \A j \in top : i <= j
        tied == \E i \in top : ~SameKey(i, first)
    IN  IF \E i \in 1..Len(data) : ~Hashable(data[i])
        THEN Raise("TypeError", <<"unhashable type">>)
        ELSE IF data = <<>> THEN Raise("StatisticsError", <<"no mode for empty data">>)
        ELSE IF Len(data) >= 2 /\ \E i \in 1..Len(data) : HasSym(data[i]) THEN Beyond
        ELSE IF tied /\ tieRaises THEN Raise("StatisticsError", <<"no unique mode">>)
        ELSE Ok(data[first])

\* abs
FnAbs(args) ==
    IF Len(args) # 1 THEN Raise("TypeError", ArityMsg)
    ELSE IF IsExact(args[1])
    THEN MkNum(args[1].t = "float", Abs(NumOf(args[1])), DenOf(args[1]))
    ELSE IF args[1].t = "sym" THEN Ok(SymV("abs", args))
    ELSE Raise("TypeError", <<"bad operand type for abs()">>)

\* round(number[, ndigits])
FnRound(args) ==
    LET \* the integer nearest to n/d (d > 0), ties to the even one
        RoundHalfEven(n, d) ==
            LET f == FloorDiv(n, d)
                twice == 2 * (n - f * d)
            IN  IF twice < d THEN f
                ELSE IF twice > d THEN f + 1
                ELSE IF f % 2 = 0 THEN f ELSE f + 1
    IN
    IF Len(args) \notin {1, 2} THEN Raise("TypeError", ArityMsg)
    ELSE IF ~IsNumber(args[1]) THEN Raise("TypeError", <<"type doesn't define __round__ method">>)
    ELSE IF Len(args) = 2 /\ ~(IsIntLike(args[2]) \/ args[2].t = "none")
    THEN Raise("TypeError", <<"object cannot be interpreted as an integer">>)
    ELSE IF args[1].t = "sym" THEN Ok(SymV("round", args))
    ELSE IF Len(args) = 1 \/ args[2].t = "none"
    THEN Ok(IntV(RoundHalfEven(NumOf(args[1]), DenOf(args[1]))))
    ELSE IF IsIntLike(args[1]) /\ NumOf(args[2]) >= 0 THEN Ok(IntV(NumOf(args[1])))
    ELSE IF args[1].t = "float" /\ args[1].d = 1 /\ NumOf(args[2]) >= 0 THEN Ok(args[1])
    ELSE Ok(SymV("round", args))

\* acc * k * (k + 1) * ... * n, or -1 beyond IntCap
RECURSIVE Fact(_, _, _)
Fact(k, n, acc) ==
    IF k > n THEN acc
    ELSE IF acc * k > IntCap THEN -1
    ELSE Fact(k + 1, n, acc * k)

\* "factorial": lambda n: math.factorial(int(n))
FnFactorial(args) ==
    IF Len(args) # 1 THEN Raise("TypeError", ArityMsg)
    ELSE IF args[1].t = "str" THEN Raise("ValueError", <<"invalid literal for int()">>)
    ELSE IF ~IsNumber(args[1]) THEN Raise("TypeError", <<"int() argument must be a number">>)
    ELSE IF args[1].t = "sym" THEN Beyond
    ELSE LET n == IF NumOf(args[1]) >= 0 THEN NumOf(args[1]) \div DenOf(args[1])
                  ELSE -((-NumOf(args[1])) \div DenOf(args[1]))
         IN  IF n < 0 THEN Raise("ValueError", <<"factorial() not defined for negative values">>)
             ELSE IF Fact(2, n, 1) < 0 THEN Beyond
             ELSE Ok(IntV(Fact(2, n, 1)))

\* "mod": lambda a, b: a % b
FnMod(args) ==
    IF Len(args) # 2 THEN Raise("TypeError", ArityMsg) ELSE PyMod(args[1], args[2])

\* "rand": lambda: random.random(); draw is this call's draw of the generator
FnRand(args, draw) ==
    IF Len(args) # 0 THEN Raise("TypeError", ArityMsg) ELSE Ok(SymV("random", <<IntV(draw)>>))

\* "choice": random.choice(a[0]) for a single list or tuple, else _raise(...)
FnChoice(args, draw) ==
    IF Len(args) = 1 /\ IsSeqV(args[1])
    THEN (IF args[1].e = <<>> THEN Raise("IndexError", <<"Cannot choose from an empty sequence">>)
          ELSE Ok(args[1].e[(draw % Len(args[1].e)) + 1]))
    ELSE Raise("EvalError", <<"choice requires a single sequence argument">>)

(***************************************************************************)
(* CalculatorEngine: the tables built for each evaluation                  *)
(***************************************************************************)
NoUniqueMode == StrV(<<"No unique mode">>)

\* _safe_mode: statistics.mode, with StatisticsError turned into the sentinel
_safe_mode(args, tieRaises) ==
    LET r == StatMode(args, tieRaises)
    IN  IF ~r.ok /\ r.ty = "StatisticsError" THEN Ok(NoUniqueMode) ELSE r

\* _angle_wrapper as it would be if it converted from degrees in every mode
_angle_wrapper_always_degrees(mode, trig_fn) ==
    [impl |-> "wrapped", f |-> trig_fn, conv |-> "deg"]

\* _angle_wrapper: the wrapper converts from degrees unless the mode is "rad"
_angle_wrapper(mode, trig_fn) ==
    [impl |-> "wrapped", f |-> trig_fn, conv |-> IF mode = "rad" THEN "rad" ELSE "deg"]

\* a call of the wrapper: lambda x: trig_fn(x) or lambda x: trig_fn(math.radians(x))
CallWrapped(w, args) ==
    IF Len(args) # 1 THEN Raise("TypeError", ArityMsg)
    ELSE IF ~IsNumber(args[1]) THEN Raise("TypeError", RealMsg)
    ELSE Ok(MathTrig(w.f, IF w.conv = "rad" THEN args[1] ELSE Radians(args[1])))

N_x == <<"x">>

\* _prepare_functions: sin, cos, tan are wrapped now, with the current mode;
\* sec, csc, cot wrap their function when they are called
_prepare_functions(mode) ==
    <<"s", "i", "n">> :> _angle_wrapper(mode, "sin") @@ <<"c", "o", "s">> :> _angle_wrapper(mode, "cos") @@
    <<"t", "a", "n">> :> _angle_wrapper(mode, "tan") @@
    <<"s", "e", "c">> :> [impl |-> "recip", f |-> "cos"] @@ <<"c", "s", "c">> :> [impl |-> "recip", f |-> "sin"] @@
    <<"c", "o", "t">> :> [impl |-> "recip", f |-> "tan"] @@
    <<"s", "q", "r", "t">> :> [impl |-> "sqrt"] @@ <<"l", "o", "g">> :> [impl |-> "log"] @@ <<"l", "n">> :> [impl |-> "ln"] @@
    <<"m", "e", "a", "n">> :> [impl |-> "mean"] @@ <<"m", "e", "d", "i", "a", "n">> :> [impl |-> "median"] @@
    <<"m", "o", "d", "e">> :> [impl |-> "mode"] @@ <<"s", "t", "d">> :> [impl |-> "stdev"] @@
    <<"s", "t", "d", "e", "v">> :> [impl |-> "stdev"] @@ <<"v", "a", "r", "i", "a", "n", "c", "e">> :> [impl |-> "variance"] @@
    <<"m", "i", "n">> :> [impl |-> "min"] @@ <<"m", "a", "x">> :> [impl |-> "max"] @@ <<"a", "b", "s">> :> [impl |-> "abs"] @@
    <<"r", "o", "u", "n", "d">> :> [impl |-> "round"] @@ <<"f", "a", "c", "t", "o", "r", "i", "a", "l">> :> [impl |-> "factorial"] @@
    <<"m", "o", "d">> :> [impl |-> "mod"] @@ <<"r", "a", "n", "d">> :> [impl |-> "rand"] @@ <<"c", "h", "o", "i", "c", "e">> :> [impl |-> "choice"]

\* _prepare_names: pi and e, then the extra bindings under their lowercased names
_prepare_names(extra) ==
    \* math.pi and math.e are uninterpreted numbers
    LET base == <<"p", "i">> :> SymV("pi", <<>>) @@ <<"e">> :> SymV("e", <<>>)
        keys == {LowerStr(k) : k \in DOMAIN extra}
    IN  [n \in keys \cup DOMAIN base |->
            IF n \in keys THEN extra[CHOOSE k \in DOMAIN extra : LowerStr(k) = n] ELSE base[n]]

\* _raise(msg)
_raise(msg) == Raise("EvalError", msg)

\* fn(*args) for an entry fn of the function table; mode is the engine's mode at
\* the time of the call
CallFunction(fn, args, mode, tieRaises, draw) ==
    CASE fn.impl = "wrapped" -> CallWrapped(fn, args)
      [] fn.impl = "recip" ->
            LET t == CallWrapped(_angle_wrapper(mode, fn.f), args)
            IN  IF Len(args) # 1 THEN Raise("TypeError", ArityMsg)
                ELSE IF ~t.ok THEN t
                ELSE IF IsZero(t.v) THEN Raise("ZeroDivisionError", <<"float division by zero">>)
                ELSE IF IsExact(t.v) THEN PyTrueDiv(IntV(1), t.v)
                \* of the floats only zero has a sine or a tangent of zero, and none
                \* has a cosine of zero
                ELSE IF IsExact(args[1]) \/ fn.f = "cos" THEN Ok(SymV("truediv", <<IntV(1), t.v>>))
                ELSE Beyond
      [] fn.impl = "sqrt" -> MathSqrt(args)
      [] fn.impl = "log" -> FnLog(args)
      [] fn.impl = "ln" -> FnLn(args)
      [] fn.impl = "mean" ->
            IF Len(args) >= 1 THEN StatMean(args)
            ELSE Ok(ExcV("EvalError", <<"mean() needs args">>))
      [] fn.impl = "median" -> StatMedian(args)
      [] fn.impl = "mode" -> _safe_mode(args, tieRaises)
      [] fn.impl = "stdev" ->
            IF Len(args) > 1 THEN StatStdev(args) ELSE _raise(<<"Need >=2 values for stdev">>)
      [] fn.impl = "variance" ->
            IF Len(args) > 1 THEN StatVariance(args)
            ELSE _raise(<<"Need >=2 values for variance">>)
      [] fn.impl = "min" -> FnMinMax(args, FALSE)
      [] fn.impl = "max" -> FnMinMax(args, TRUE)
      [] fn.impl = "abs" -> FnAbs(args)
      [] fn.impl = "round" -> FnRound(args)
      [] fn.impl = "factorial" -> FnFactorial(args)
      [] fn.impl = "mod" -> FnMod(args)
      [] fn.impl = "rand" -> FnRand(args, draw)
      [] fn.impl = "choice" -> FnChoice(args, draw)

(***************************************************************************)
(* SafeEvaluator's visitors                                                *)
(***************************************************************************)
RECURSIVE Visit(_, _, _), VisitAll(_, _, _, _), CompareLoop(_, _, _, _, _, _)

\* [self.visit(n) for n in nodes]: left to right, stopping at the first failure
VisitAll(nodes, env, log, acc) ==
    LET Rest(r) == IF r.ok THEN VisitAll(Tail(nodes), env, r.log, Append(acc, r.v)) ELSE r
    IN  IF nodes = <<>> THEN Done(acc, log) ELSE Rest(Visit(Head(nodes), env, log))

\* the loop of visit_Compare as it would be with a break at the first false pair
RECURSIVE CompareLoopBreak(_, _, _, _, _, _)
CompareLoopBreak(node, i, left, result, env, log) ==
    LET op == node.ops[i]
        Compared(right, c) ==
            IF ~c.ok THEN Raised(c.ty, c.m, Append(right.log, OpEv(op, <<left, right.v>>)))
            ELSE CompareLoopBreak(node, i + 1, right.v, c.v, env,
                                  Append(right.log, OpEv(op, <<left, right.v>>)))
        Rest(right) ==
            IF ~right.ok THEN right
            ELSE IF op \notin {"Eq", "NotEq", "Lt", "LtE", "Gt", "GtE"}
            THEN Raised("EvalError", <<"Unsupported comparison">>, right.log)
            ELSE Compared(right, PyCompare(op, left, right.v))
    IN  IF i > Len(node.ops) \/ ~Truthy(result) THEN Done(result, log)
        ELSE Rest(Visit(node.comparators[i], env, log))

\* the loop of visit_Compare over zip(node.ops, node.comparators), from pair i on
CompareLoop(node, i, left, result, env, log) ==
    LET op == node.ops[i]
        Compared(right, c) ==
            IF ~c.ok THEN Raised(c.ty, c.m, Append(right.log, OpEv(op, <<left, right.v>>)))
            ELSE CompareLoop(node, i + 1, right.v, c.v, env,
                             Append(right.log, OpEv(op, <<left, right.v>>)))
        Rest(right) ==
            IF ~right.ok THEN right
            ELSE IF op \notin {"Eq", "NotEq", "Lt", "LtE", "Gt", "GtE"}
            THEN Raised("EvalError", <<"Unsupported comparison">>, right.log)
            \* result and (left <op> right): the comparison is made only when
            \* result is true
            ELSE IF ~Truthy(result)
            THEN CompareLoop(node, i + 1, right.v, result, env, right.log)
            ELSE Compared(right, PyCompare(op, left, right.v))
    IN  IF i > Len(node.ops) THEN Done(result, log)
        ELSE Rest(Visit(node.comparators[i], env, log))

visit_UnaryOp(node, env, log) ==
    LET Applied(r, log2) == IF r.ok THEN Done(r.v, log2) ELSE Raised(r.ty, r.m, log2)
        Operand(operand) ==
            IF ~operand.ok THEN operand
            ELSE IF node.op \in {"UAdd", "USub"}
            THEN Applied(IF node.op = "UAdd" THEN PyPos(operand.v) ELSE PyNeg(operand.v),
                         Append(operand.log, OpEv(node.op, <<operand.v>>)))
            ELSE IF node.op = "Not"
            THEN (IF operand.v.t = "sym"
                  THEN Raised("Unmodelled", <<>>, Append(operand.log, OpEv("Not", <<operand.v>>)))
                  ELSE Done(BoolV(~Truthy(operand.v)),
                            Append(operand.log, OpEv("Not", <<operand.v>>))))
            ELSE Raised("EvalError", <<"Unsupported unary operator: ", node.op>>, operand.log)
    IN  Operand(Visit(node.operand, env, log))

visit_BinOp(node, env, log) ==
    LET Applied(r, log2) ==
            IF r.ok THEN Done(r.v, log2)
            ELSE IF r = Beyond THEN Raised("Unmodelled", <<>>, log2)
            ELSE IF r.ty = "ZeroDivisionError"
            THEN Raised("EvalError", <<"Division by zero">>, log2)
            ELSE Raised("EvalError", r.m, log2)
        Right(left, right) ==
            IF ~right.ok THEN right
            ELSE IF node.op \notin SupportedBinOps
            THEN Raised("EvalError", <<"Unsupported binary operator: ", node.op>>, right.log)
            ELSE Applied(ApplyBinOp(node.op, left.v, right.v),
                         Append(right.log, OpEv(node.op, <<left.v, right.v>>)))
        Left(left) == IF ~left.ok THEN left ELSE Right(left, Visit(node.right, env, left.log))
    IN  Left(Visit(node.left, env, log))

\* all(vals) (stop = FALSE) and any(vals) (stop = TRUE): the truthiness of the
\* values is taken from the left, up to the first one whose truthiness is stop
PyAllAny(vals, stop, log) ==
    LET decided == \E i \in 1..Len(vals) :
                       /\ \A j \in 1..i : vals[j].t # "sym"
                       /\ Truthy(vals[i]) = stop
    IN  IF decided THEN Done(BoolV(stop), log)
        ELSE IF \E i \in 1..Len(vals) : vals[i].t = "sym" THEN Raised("Unmodelled", <<>>, log)
        ELSE Done(BoolV(~stop), log)

\* visit_BoolOp as it would be if a first operand that decides the result ended
\* the evaluation
visit_BoolOp_short_circuit(node, env, log) ==
    LET Reduce(vals) ==
            IF ~vals.ok THEN vals
            ELSE IF node.op \in {"And", "Or"} THEN PyAllAny(vals.v, node.op = "Or", vals.log)
            ELSE Raised("EvalError", <<"Unsupported boolean operator">>, vals.log)
        First(r) ==
            IF r.ok /\ r.v.t # "sym" /\ node.op \in {"And", "Or"}
                    /\ Truthy(r.v) = (node.op = "Or")
            THEN Done(BoolV(node.op = "Or"), r.log)
            ELSE Reduce(VisitAll(node.values, env, log, <<>>))
    IN  First(Visit(node.values[1], env, log))

visit_BoolOp(node, env, log) ==
    LET Reduce(vals) ==
            IF ~vals.ok THEN vals
            ELSE IF node.op \in {"And", "Or"} THEN PyAllAny(vals.v, node.op = "Or", vals.log)
            ELSE Raised("EvalError", <<"Unsupported boolean operator">>, vals.log)
    IN  Reduce(VisitAll(node.values, env, log, <<>>))

visit_Compare(node, env, log) ==
    LET Rest(left) ==
            IF ~left.ok THEN left
            ELSE CompareLoop(node, 1, left.v, BoolV(TRUE), env, left.log)
    IN  Rest(Visit(node.left, env, log))

\* visit_Call as it would be with the evaluation of the arguments inside the try
\* block, under the handlers meant for the call of the function
visit_Call_arguments_in_try(node, env, log) ==
    LET fname == LowerStr(node.func.id)
        Called(r, log2) ==
            IF r.ok THEN Done(r.v, log2)
            ELSE IF r = Beyond THEN Raised("Unmodelled", <<>>, log2)
            ELSE IF r.ty = "TypeError"
            THEN Raised("EvalError", <<"Function call error: ">> \o r.m, log2)
            ELSE Raised("EvalError", r.m, log2)
        \* the native calls made so far number the draws of the generator
        Draw(calls) == env.draws[(calls % Len(env.draws)) + 1]
        \* keyword arguments are not evaluated and not passed
        Args(args) ==
            IF ~args.ok /\ args.ty = "Unmodelled" THEN args
            ELSE IF ~args.ok /\ args.ty = "TypeError"
            THEN Raised("EvalError", <<"Function call error: ">> \o args.m, args.log)
            ELSE IF ~args.ok THEN Raised("EvalError", args.m, args.log)
            ELSE Called(CallFunction(env.funcs[fname], args.v, env.mode, env.tieRaises,
                                     Draw(Len(SelectSeq(args.log, LAMBDA ev : ev.e = "call")))),
                        Append(args.log, CallEv(fname, args.v)))
    IN  IF node.func.k # "Name"
        THEN Raised("EvalError", <<"Only direct function calls allowed">>, log)
        ELSE IF fname \notin DOMAIN env.funcs
        THEN Raised("EvalError", <<"Unknown function: ">> \o fname, log)
        ELSE Args(VisitAll(node.args, env, log, <<>>))

visit_Call(node, env, log) ==
    LET fname == LowerStr(node.func.id)
        Called(r, log2) ==
            IF r.ok THEN Done(r.v, log2)
            ELSE IF r = Beyond THEN Raised("Unmodelled", <<>>, log2)
            ELSE IF r.ty = "TypeError"
            THEN Raised("EvalError", <<"Function call error: ">> \o r.m, log2)
            ELSE Raised("EvalError", r.m, log2)
        \* the native calls made so far number the draws of the generator
        Draw(calls) == env.draws[(calls % Len(env.draws)) + 1]
        \* keyword arguments are not evaluated and not passed
        Args(args) ==
            IF ~args.ok THEN args
            ELSE Called(CallFunction(env.funcs[fname], args.v, env.mode, env.tieRaises,
                                     Draw(Len(SelectSeq(args.log, LAMBDA ev : ev.e = "call")))),
                        Append(args.log, CallEv(fname, args.v)))
    IN  IF node.func.k # "Name"
        THEN Raised("EvalError", <<"Only direct function calls allowed">>, log)
        ELSE IF fname \notin DOMAIN env.funcs
        THEN Raised("EvalError", <<"Unknown function: ">> \o fname, log)
        ELSE Args(VisitAll(node.args, env, log, <<>>))

\* visit_Name as it would be if it looked the name up as it is written
visit_Name_as_written(node, env, log) ==
    IF node.id \in DOMAIN env.names THEN Done(env.names[node.id], log)
    ELSE Raised("EvalError", <<"Unknown name: ">> \o node.id, log)

\* visit_Name as it would be with a default value for an unknown name
visit_Name_default(node, env, log) ==
    IF LowerStr(node.id) \in DOMAIN env.names THEN Done(env.names[LowerStr(node.id)], log)
    ELSE Done(IntV(0), log)

visit_Name(node, env, log) ==
    IF LowerStr(node.id) \in DOMAIN env.names THEN Done(env.names[LowerStr(node.id)], log)
    ELSE Raised("EvalError", <<"Unknown name: ">> \o node.id, log)

visit_List(node, env, log) ==
    LET Built(elts) == IF elts.ok THEN Done(ListV(elts.v), elts.log) ELSE elts
    IN  Built(VisitAll(node.elts, env, log, <<>>))

visit_Tuple(node, env, log) ==
    LET Built(elts) == IF elts.ok THEN Done(TupleV(elts.v), elts.log) ELSE elts
    IN  Built(VisitAll(node.elts, env, log, <<>>))

\* generic_visit as the base class has it: the children are visited and the
\* result is None
generic_visit_of_NodeVisitor(node, env, log) ==
    LET children == IF node.k = "Starred" THEN <<node.value>>
                    ELSE IF node.k = "Subscript" THEN <<node.value, node.slice>>
                    ELSE <<>>
        Visited(r) == IF r.ok THEN Done(NoneV, r.log) ELSE r
    IN  Visited(VisitAll(children, env, log, <<>>))

generic_visit(node, env, log) ==
    Raised("EvalError", <<"Unsupported expression: ", node.k>>, log)

\* visit: the visitor named after the node's class, else generic_visit
Visit(node, env, log) ==
    LET log1 == Append(log, VisitEv(node))
    IN  CASE node.k = "Expression" -> Visit(node.body, env, log1)
          [] node.k = "Constant" -> Done(node.value, log1)
          [] node.k = "UnaryOp" -> visit_UnaryOp(node, env, log1)
          [] node.k = "BinOp" -> visit_BinOp(node, env, log1)
          [] node.k = "BoolOp" -> visit_BoolOp(node, env, log1)
          [] node.k = "Compare" -> visit_Compare(node, env, log1)
          [] node.k = "Call" -> visit_Call(node, env, log1)
          [] node.k = "Name" -> visit_Name(node, env, log1)
          [] node.k = "List" -> visit_List(node, env, log1)
          [] node.k = "Tuple" -> visit_Tuple(node, env, log1)
          [] OTHER -> generic_visit(node, env, log1)

(***************************************************************************)
(* CalculatorEngine: calculate and evaluate_for_x                          *)
(***************************************************************************)
\* the classes of the exceptions raised in the model, all subclasses of Exception
ExceptionClasses == {"EvalError", "ZeroDivisionError", "TypeError", "ValueError",
                     "IndexError", "StatisticsError", "SyntaxError"}

\* the body of the try block shared by calculate and evaluate_for_x: the check of
\* the argument, the preparation of the text, the parse, the tables, the visit
\* the try block with the function table funcs, built before the visit, and the
\* engine's mode during the visit
TryBodyWith(expression, extra, funcs, mode, tieRaises, draws) ==
    LET Evaluate(parsed) ==
            IF parsed.st = "unmodelled" THEN Raised("Unmodelled", <<>>, <<>>)
            ELSE IF parsed.st = "SyntaxError"
            THEN Raised("SyntaxError", <<"invalid syntax">>, <<>>)
            ELSE Visit(parsed.node,
                       [funcs |-> funcs, names |-> _prepare_names(extra),
                        mode |-> mode, tieRaises |-> tieRaises, draws |-> draws], <<>>)
    IN  IF expression.t # "str"
        THEN Raised("EvalError", <<"Expression must be a string">>, <<>>)
        ELSE Evaluate(AstParse(PrepareText(expression.s)))

\* the try block of a call during which the mode does not change
TryBody(expression, extra, mode, tieRaises, draws) ==
    TryBodyWith(expression, extra, _prepare_functions(mode), mode, tieRaises, draws)

Returned(v, log) == [out |-> "return", v |-> v, log |-> log]
Propagated(ty, log) == [out |-> "raise", ty |-> ty, log |-> log]

\* calculate as it would be without its last handler (except Exception)
calculate_two_handlers(expression, mode, tieRaises, draws) ==
    LET Handled(r) ==
            IF r.ok THEN Returned(r.v, r.log)
            ELSE IF r.ty = "EvalError" THEN Returned(StrV(<<"Error: ">> \o r.m), r.log)
            ELSE IF r.ty = "ZeroDivisionError"
            THEN Returned(StrV(<<"Division by zero">>), r.log)
            ELSE Propagated(r.ty, r.log)
    IN  Handled(TryBody(expression, <<>>, mode, tieRaises, draws))

\* calculate: the handlers for EvalError, ZeroDivisionError, Exception, in this order,
\* for the result r of its try block
calculate_except(r) ==
    IF r.ok THEN Returned(r.v, r.log)
    ELSE IF r.ty = "EvalError" THEN Returned(StrV(<<"Error: ">> \o r.m), r.log)
    ELSE IF r.ty = "ZeroDivisionError" THEN Returned(StrV(<<"Division by zero">>), r.log)
    ELSE IF r.ty \in ExceptionClasses THEN Returned(StrV(<<"Error">>), r.log)
    ELSE Propagated(r.ty, r.log)

calculate(expression, mode, tieRaises, draws) ==
    calculate_except(TryBody(expression, <<>>, mode, tieRaises, draws))

\* evaluate_for_x: the handlers for EvalError and Exception both return None
evaluate_for_x_except(r) ==
    IF r.ok THEN Returned(r.v, r.log)
    ELSE IF r.ty = "EvalError" THEN Returned(NoneV, r.log)
    ELSE IF r.ty \in ExceptionClasses THEN Returned(NoneV, r.log)
    ELSE Propagated(r.ty, r.log)

evaluate_for_x(expression, x_value, mode, tieRaises, draws) ==
    evaluate_for_x_except(TryBody(expression, N_x :> x_value, mode, tieRaises, draws))

\* set_mode as it would be without the check of the value
set_mode_unchecked(mode, m) == m

\* set_mode: only "deg" and "rad" are taken
set_mode(mode, m) == IF m \in {"deg", "rad"} THEN m ELSE mode

(***************************************************************************)
(* The engine as a state machine.  mode is the engine's only field and     *)
(* tieRaises the host's statistics.mode behaviour, fixed for a run.  input *)
(* is the text (or other value) a caller holds ready to pass.  The other   *)
(* variables record the last call: op (which operation), arg (its first    *)
(* argument), x_value, outcome (what it returned or raised, with the log   *)
(* of the evaluation) and names, the name table the last evaluator was     *)
(* built with.  memo is a history variable: the first evaluation made and  *)
(* whether a different call has been made since.                           *)
(***************************************************************************)
VARIABLES mode, tieRaises, input, op, arg, x_value, outcome, names, memo, running,
          sidebar_visible, _sidebar_animating, sidebar_x, timers, ui_mode,
          trig_dropdown, stats_dropdown, event, selected

\* the state of the window: the sidebar, the callbacks scheduled with after(), the
\* two dropdowns, the handler that ran last (for those of the dropdowns, with the
\* dropdowns as they were when it began), and whether a mode has been selected in the
\* sidebar with no toggle_sidebar since
windowVars == <<sidebar_visible, _sidebar_animating, sidebar_x, timers, ui_mode,
                trig_dropdown, stats_dropdown, event, selected>>

\* the state of the engine, with the record of its last call
engineVars == <<mode, tieRaises, input, op, arg, x_value, outcome, names, memo, running>>

vars == <<engineVars, windowVars>>

NoCall == [out |-> "none"]
\* no evaluation has built its tables and not yet visited its tree
Idle == [st |-> "idle"]
NoMemo == [op |-> "none"]
MemoOff == [op |-> "off"]

\* __init__
EngineInit ==
    /\ mode = "deg"
    /\ tieRaises \in BOOLEAN
    /\ op = "init"
    /\ arg = NoneV
    /\ x_value = NoneV
    /\ outcome = NoCall
    /\ names = <<>>
    /\ running = Idle

\* the width of the sidebar, in pixels
sidebar_width == 220

\* CalculatorGUI.__init__ and _build_sidebar: the sidebar is placed off-screen, no
\* callback is scheduled, no dropdown is open
WindowInit ==
    /\ sidebar_visible = FALSE
    /\ _sidebar_animating = FALSE
    /\ sidebar_x = -sidebar_width
    /\ timers = <<>>
    /\ ui_mode = "scientific"
    /\ trig_dropdown = "None"
    /\ stats_dropdown = "None"
    /\ event = [h |-> "__init__"]
    /\ selected = FALSE

SetMode(m) ==
    /\ mode' = set_mode(mode, m)
    /\ op' = "set_mode"
    /\ arg' = StrV(<<m>>)
    /\ x_value' = NoneV
    /\ outcome' = Returned(NoneV, <<>>)
    /\ UNCHANGED <<tieRaises, input, names, memo, running, windowVars>>

\* the history kept in memo: the first evaluation made (the call and its outcome),
\* and whether a different call has been made since
Remember(m, call, result) ==
    IF m = MemoOff THEN m
    ELSE IF m = NoMemo THEN [call |-> call, outcome |-> result, between |-> FALSE]
    ELSE [m EXCEPT !.between = @ \/ call # m.call]

\* was an evaluator built for the text e (the parse succeeded)?
EvaluatorBuilt(e) == e.t = "str" /\ AstParse(PrepareText(e.s)).st = "ok"

\* calculate as it would be with a name table kept on the engine and updated,
\* not rebuilt, for each evaluation
CalculateKeepingNames(e, draws) ==
    LET Handled(r) ==
            IF r.ok THEN Returned(r.v, r.log)
            ELSE IF r.ty = "EvalError" THEN Returned(StrV(<<"Error: ">> \o r.m), r.log)
            ELSE IF r.ty = "ZeroDivisionError"
            THEN Returned(StrV(<<"Division by zero">>), r.log)
            ELSE Returned(StrV(<<"Error">>), r.log)
    IN  /\ op' = "calculate"
        /\ arg' = e
        /\ x_value' = NoneV
        /\ outcome' = Handled(TryBody(e, names, mode, tieRaises, draws))
        /\ names' = IF EvaluatorBuilt(e) THEN _prepare_names(names) ELSE names
        /\ memo' = Remember(memo, [op |-> op', arg |-> e, x_value |-> NoneV, mode |-> mode],
                            outcome')
        /\ UNCHANGED <<mode, tieRaises, input, running, windowVars>>

Calculate(e, draws) ==
    /\ op' = "calculate"
    /\ arg' = e
    /\ x_value' = NoneV
    /\ outcome' = calculate(e, mode, tieRaises, draws)
    /\ names' = IF EvaluatorBuilt(e) THEN _prepare_names(<<>>) ELSE names
    /\ memo' = Remember(memo, [op |-> op', arg |-> e, x_value |-> NoneV, mode |-> mode],
                        outcome')
    /\ UNCHANGED <<mode, tieRaises, input, running, windowVars>>

EvaluateForX(e, x, draws) ==
    /\ op' = "evaluate_for_x"
    /\ arg' = e
    /\ x_value' = x
    /\ outcome' = evaluate_for_x(e, x, mode, tieRaises, draws)
    /\ names' = IF EvaluatorBuilt(e) THEN _prepare_names(N_x :> x) ELSE names
    /\ memo' = Remember(memo, [op |-> op', arg |-> e, x_value |-> x, mode |-> mode],
                        outcome')
    /\ UNCHANGED <<mode, tieRaises, input, running, windowVars>>

(***************************************************************************)
(* The engine under any sequence of calls, over a few expressions          *)
(***************************************************************************)
ModeInputs == {"deg", "rad", "grad", "DEG"}
XValues == {IntV(0), IntV(2)}
\* what the host's random generator yields, call after call
Draws == {<<0>>, <<1>>}

SequenceTexts ==
    {<<"x">>, <<"1", "/", "x">>, <<"s", "i", "n", "(", "9", "0", ")">>,
     <<"2", "+", "3", "*", "4">>, <<"r", "a", "n", "d", "(", ")">>}

Init == EngineInit /\ WindowInit /\ input = NoneV /\ memo = NoMemo

Next ==
    \/ \E m \in ModeInputs : SetMode(m)
    \/ \E t \in SequenceTexts, d \in Draws : Calculate(StrV(t), d)
    \/ \E t \in SequenceTexts, x \in XValues, d \in Draws : EvaluateForX(StrV(t), x, d)

Spec == Init /\ [][Next]_vars

(***************************************************************************)
(* One input, drawn from a bounded set, passed to the engine in one call   *)
(***************************************************************************)
\* every text of at most n characters of the alphabet
Texts(alphabet, n) == UNION {[1..k -> alphabet] : k \in 0..n}

\* operand (operator operand)*, with n operators
RECURSIVE Chains(_, _, _)
Chains(operands, operators, n) ==
    IF n = 0 THEN operands
    ELSE {l \o o \o r : l \in Chains(operands, operators, n - 1), o \in operators,
                        r \in operands}

TextAlphabet == {"0", "1", "f", "(", ")", "/", "-"}

SampleTexts ==
    {<<"1", "/", "0">>, <<"1", "/", "/", "0">>, <<"1", "%", "0">>,
     <<"2", "+">>, <<"(", "1">>, <<"1", ")">>, <<"1", "$">>, <<"0", "1">>,
     <<"f", "o", "o", "(", "1", ")">>, <<"b", "a", "r">>, <<"B", "a", "r", "+", "1">>,
     <<"F", "o", "o", "(", "1", "/", "0", ")">>,
     <<"-", "[", "1", "]">>, <<"1", "<", "[", "1", "]">>,
     <<"1", "/", "x">>, <<"x">>, <<"m", "e", "a", "n", "(", ")">>,
     <<"s", "q", "r", "t", "(", "-", "1", ")">>, <<"1", " ", "+", " ", "1">>,
     \* constants and literals of every kind
     <<"N", "o", "n", "e">>, <<"T", "r", "u", "e">>, <<"[", "1", ",", "2", "]">>,
     <<"(", "1", ",", "2", ")">>, <<"m", "e", "a", "n", "(", "1", ")">>,
     \* statistics functions with too few arguments
     <<"s", "t", "d", "(", ")">>, <<"s", "t", "d", "(", "1", ")">>,
     <<"s", "t", "d", "e", "v", "(", ")">>, <<"s", "t", "d", "e", "v", "(", "1", ")">>,
     <<"v", "a", "r", "i", "a", "n", "c", "e", "(", ")">>,
     <<"v", "a", "r", "i", "a", "n", "c", "e", "(", "1", ")">>,
     <<"s", "t", "d", "(", "1", ",", "2", ")">>,
     \* arithmetic on lists and tuples
     <<"[", "1", "]", "+", "[", "2", "]">>, <<"[", "1", "]", "*", "2">>,
     <<"2", "*", "[", "1", "]">>, <<"(", "1", ",", "2", ")", "+", "(", "3", ",", ")">>,
     <<"(", "1", ",", ")", "*", "2">>, <<"+", "[", "1", "]">>, <<"-", "(", "1", ",", ")">>,
     <<"[", "1", "]", "-", "[", "2", "]">>, <<"[", "1", "]", "/", "2">>,
     <<"[", "1", "]", "/", "/", "2">>, <<"[", "1", "]", "%", "2">>,
     <<"[", "1", "]", "^", "2">>, <<"[", "1", "]", "+", "1">>,
     \* nodes without a visitor, and calls of something that is not a name
     <<"[", "1", "]", "[", "0", "]">>,
     <<"m", "a", "x", "(", "*", "[", "1", ",", "2", "]", ")">>,
     <<"(", "1", ")", "(", "2", ")">>, <<"s", "i", "n", "(", "1", ")", "(", "2", ")">>,
     \* calls with keyword arguments
     <<"r", "o", "u", "n", "d", "(", "3", "/", "2", ",", "n", "d", "i", "g", "i", "t", "s", "=", "1", ")">>,
     <<"r", "a", "n", "d", "(", "k", "=", "1", ")">>,
     <<"m", "a", "x", "(", "1", ",", "2", ",", "k", "e", "y", "=", "a", "b", "s", ")">>,
     <<"a", "b", "s", "(", "x", "=", "1", ")">>,
     \* failures inside operands and arguments
     <<"a", "b", "s", "(", "-", "[", "1", "]", ")">>,
     <<"1", "+", "m", "o", "d", "(", "1", ",", "0", ")">>,
     <<"a", "b", "s", "(", "s", "q", "r", "t", "(", "-", "1", ")", ")">>,
     <<"m", "a", "x", "(", "1", "/", "0", ",", "f", "o", "o", ")">>,
     <<"[", "1", "/", "0", ",", "b", "a", "r", "]">>,
     <<"(", "1", "/", "0", ")", "<", "b", "a", "r">>, <<"b", "a", "r", "+", "1", "/", "0">>,
     <<"1", "+", "(", "2", "+", "1", "/", "0", ")">>,
     <<"m", "a", "x", "(", "2", ",", "-", "[", "1", "]", ")">>,
     \* spaces between tokens
     <<"1", " ", "2">>, <<"1", " ", "a", "n", "d", " ", "2">>, <<"n", "o", "t", " ", "1">>,
     <<"(", "1", ")", " ", "a", "n", "d", " ", "(", "0", ")">>, <<"1", " ", "<", " ", "2">>,
     <<"x", " ", "x">>, <<"2", " ", "*", " ", "*", " ", "3">>,
     <<"1", " ", "<", " ", "=", " ", "2">>,
     <<"m", "a", "x", " ", "(", "1", ",", " ", "2", ")">>}

\* mode(a, b, ...) with n arguments among 1, 2, 3
ModeCalls(n) ==
    IF n = 0 THEN {<<"m", "o", "d", "e", "(", ")">>}
    ELSE {<<"m", "o", "d", "e", "(">> \o a \o <<")">> :
             a \in Chains({<<"1">>, <<"2">>, <<"3">>}, {<<",">>}, n - 1)}

\* values that are not texts
OtherValues == {IntV(5), NoneV, ListV(<<StrV(<<"1">>)>>)}

TextInputs ==
    {StrV(t) : t \in Texts(TextAlphabet, MaxLen) \cup SampleTexts
                     \cup UNION {ModeCalls(n) : n \in 0..MaxArgs}}
    \cup OtherValues

TextInit == EngineInit /\ WindowInit /\ input \in TextInputs /\ memo = MemoOff

TextNext ==
    \/ op = "init" /\ Calculate(input, <<0>>)
    \/ op = "init" /\ \E x \in XValues : EvaluateForX(input, x, <<0>>)

SpecText == TextInit /\ [][TextNext]_vars

(***************************************************************************)
(* One text, evaluated any number of times between changes of the mode     *)
(***************************************************************************)
TrigNames ==
    {<<"s", "i", "n">>, <<"c", "o", "s">>, <<"t", "a", "n">>,
     <<"s", "e", "c">>, <<"c", "s", "c">>, <<"c", "o", "t">>}
TrigArguments == {<<"0">>, <<"9", "0">>, <<"x">>, <<"1", "/", "2">>}
TrigTexts == {f \o <<"(">> \o a \o <<")">> : f \in TrigNames, a \in TrigArguments}

\* the text with the letters at the positions of S in upper case
UpperAt(text, S) ==
    LET Upper(c) == IF \E u \in NameStart : u # c /\ LowerStr(<<u>>) = <<c>>
                    THEN CHOOSE u \in NameStart : u # c /\ LowerStr(<<u>>) = <<c>>
                    ELSE c
    IN  [i \in DOMAIN text |-> IF i \in S THEN Upper(text[i]) ELSE text[i]]
\* the text with any of its letters in upper case
CaseVariants(text) == {UpperAt(text, S) : S \in SUBSET DOMAIN text}
CaseTexts ==
    UNION {CaseVariants(t) : t \in {<<"s", "i", "n", "(", "p", "i", ")">>, <<"x", "+", "e">>,
                                    <<"l", "n", "(", "e", ")">>, <<"m", "a", "x", "(", "x", ")">>}}

ModeInit ==
    /\ EngineInit /\ WindowInit
    /\ input \in {StrV(t) : t \in TrigTexts \cup CaseTexts} /\ memo = MemoOff

ModeNext ==
    \/ \E m \in ModeInputs : SetMode(m)
    \/ Calculate(input, <<0>>)
    \/ \E x \in XValues : EvaluateForX(input, x, <<0>>)

SpecMode == ModeInit /\ [][ModeNext]_vars

(***************************************************************************)
(* One text, evaluated while another thread changes the mode. An           *)
(* evaluation is two steps: the tables are built, then the tree is         *)
(* visited; set_mode can run between the two. The visit is one step, so    *)
(* the runs of this specification are some of the runs of the code, in     *)
(* which set_mode can also run between two calls of one visit.             *)
(***************************************************************************)
RaceTexts ==
    TrigTexts \cup {<<"s", "i", "n", "(", "9", "0", ")", "+", "s", "e", "c", "(", "9", "0", ")">>}

RaceInit ==
    /\ EngineInit /\ WindowInit
    /\ input \in {StrV(t) : t \in RaceTexts} /\ memo = MemoOff

\* calculate up to the construction of the evaluator: the text is parsed and the
\* function table is built with the mode of this moment
BeginCalculate(e) ==
    /\ running.st # "visiting"
    /\ EvaluatorBuilt(e)
    /\ running' = [st |-> "visiting", op |-> "calculate", x_value |-> NoneV, built |-> mode]
    /\ UNCHANGED <<mode, tieRaises, input, op, arg, x_value, outcome, names, memo, windowVars>>

\* evaluate_for_x up to the construction of the evaluator
BeginEvaluateForX(e, x) ==
    /\ running.st # "visiting"
    /\ EvaluatorBuilt(e)
    /\ running' = [st |-> "visiting", op |-> "evaluate_for_x", x_value |-> x, built |-> mode]
    /\ UNCHANGED <<mode, tieRaises, input, op, arg, x_value, outcome, names, memo, windowVars>>

\* evaluator.visit(tree) and the except clauses: the functions are those of the table
\* built at the beginning, the mode is the one the engine has now
FinishVisit(e, draws) ==
    /\ running.st = "visiting"
    /\ op' = running.op
    /\ arg' = e
    /\ x_value' = running.x_value
    /\ outcome' =
            IF running.op = "calculate"
            THEN calculate_except(TryBodyWith(e, <<>>, _prepare_functions(running.built),
                                              mode, tieRaises, draws))
            ELSE evaluate_for_x_except(TryBodyWith(e, N_x :> running.x_value,
                                                   _prepare_functions(running.built),
                                                   mode, tieRaises, draws))
    /\ names' = IF running.op = "calculate" THEN _prepare_names(<<>>)
                ELSE _prepare_names(N_x :> running.x_value)
    /\ running' = [running EXCEPT !.st = "done"]
    /\ UNCHANGED <<mode, tieRaises, input, memo, windowVars>>

RaceNext ==
    \/ \E m \in ModeInputs : SetMode(m)
    \/ BeginCalculate(input)
    \/ \E x \in XValues : BeginEvaluateForX(input, x)
    \/ FinishVisit(input, <<0>>)

SpecRace == RaceInit /\ [][RaceNext]_vars

(***************************************************************************)
(* Arithmetic over integer literals, and chained comparisons               *)
(***************************************************************************)
ArithOperands == {<<"2">>, <<"3">>, <<"-", "2">>}
ArithOperators == {<<"+">>, <<"-">>, <<"*">>, <<"/">>, <<"/", "/">>, <<"%">>, <<"^">>}
ArithExamples ==
    {<<"2", "+", "3", "*", "4">>, <<"(", "2", "+", "3", ")", "*", "4">>,
     <<"2", "*", "*", "3", "*", "*", "2">>, <<"2", "^", "(", "3", "-", "2", ")">>,
     <<"-", "(", "2", "+", "3", ")", "^", "2">>, <<"1", "0", "-", "4", "-", "3">>,
     <<"+", "7", "/", "/", "2">>}

ArithInit ==
    /\ EngineInit /\ WindowInit
    /\ input \in {StrV(t) : t \in ArithExamples
                      \cup UNION {Chains(ArithOperands, ArithOperators, n) : n \in 0..MaxOps}}
    /\ memo = MemoOff

\* the call is made on the inputs whose evaluation stays within the numbers the
\* model computes (2^3^3 is beyond IntCap)
CalcNext == op = "init" /\ Calculate(input, <<0>>) /\ outcome'.out = "return"

SpecArith == ArithInit /\ [][CalcNext]_vars

ChainOperands == {<<"1">>, <<"2">>, <<"3">>, <<"[", "1", "]">>}
ChainOperators == {<<"<">>, <<"=", "=">>, <<">", "=">>}

ChainInit ==
    /\ EngineInit /\ WindowInit
    /\ input \in {StrV(t) : t \in UNION {Chains(ChainOperands, ChainOperators, n - 1) :
                                            n \in 2..MaxChain}}
    /\ memo = MemoOff

SpecChain == ChainInit /\ [][CalcNext]_vars

\* operands of and/or that stay apart from the keyword when the spaces are removed
BoolOperands == {<<"(", "0", ")">>, <<"(", "1", ")">>, <<"[", "]">>,
                 <<"[", "r", "a", "n", "d", "(", ")", "]">>}
BoolOperators == {<<"a", "n", "d">>, <<"o", "r">>}

BoolInit ==
    /\ EngineInit /\ WindowInit
    /\ input \in {StrV(t) : t \in UNION {Chains(BoolOperands, BoolOperators, n) : n \in 1..MaxOps}}
    /\ memo = MemoOff

SpecBool == BoolInit /\ [][TextNext]_vars

(***************************************************************************)
(* The window: the sidebar with its animation, the two dropdowns, and the  *)
(* events of the user and of the timers, in any order                      *)
(***************************************************************************)
\* how many callbacks scheduled with after() are pending at most
MaxTimers == 2

\* the pixels the sidebar moves in one step of an animation
step == 20

UiModes == {"scientific", "graphing"}

\* after(1, self.toggle_sidebar)
ToggleTimer == [cb |-> "toggle_sidebar", ms |-> 1]
\* after(8, lambda: anim(x2)), of the anim of open_sidebar or of close_sidebar
AnimTimer(of, x2) == [cb |-> "anim", ms |-> 8, of |-> of, x |-> x2]

\* the timers without the i-th
Without(pending, i) == SubSeq(pending, 1, i - 1) \o SubSeq(pending, i + 1, Len(pending))

\* a timer is due before every timer scheduled later with the same or a longer delay
Due(pending, i) == \A j \in 1..(i - 1) : pending[j].ms > pending[i].ms

\* anim(x) of open_sidebar, the flag _sidebar_animating being animating when it runs
AnimOpen(x, animating, pending) ==
    IF x < 0
    THEN LET x2 == IF x + step > 0 THEN 0 ELSE x + step
         IN  /\ sidebar_x' = x2
             /\ IF x2 < 0
                THEN /\ timers' = Append(pending, AnimTimer("open_sidebar", x2))
                     /\ _sidebar_animating' = animating
                     /\ UNCHANGED sidebar_visible
                ELSE /\ timers' = pending
                     /\ _sidebar_animating' = FALSE
                     /\ sidebar_visible' = TRUE
    ELSE /\ timers' = pending
         /\ _sidebar_animating' = FALSE
         /\ sidebar_visible' = TRUE
         /\ UNCHANGED sidebar_x

\* anim(x) of close_sidebar
AnimClose(x, animating, pending) ==
    IF x > -sidebar_width
    THEN LET x2 == IF x - step < -sidebar_width THEN -sidebar_width ELSE x - step
         IN  /\ sidebar_x' = x2
             /\ IF x2 > -sidebar_width
                THEN /\ timers' = Append(pending, AnimTimer("close_sidebar", x2))
                     /\ _sidebar_animating' = animating
                     /\ UNCHANGED sidebar_visible
                ELSE /\ timers' = pending
                     /\ _sidebar_animating' = FALSE
                     /\ sidebar_visible' = FALSE
    ELSE /\ timers' = pending
         /\ _sidebar_animating' = FALSE
         /\ sidebar_visible' = FALSE
         /\ UNCHANGED sidebar_x

\* close_sidebar_immediate_if_needed: no pending callback is cancelled
close_sidebar_immediate_if_needed(pending) ==
    /\ sidebar_x' = -sidebar_width
    /\ _sidebar_animating' = FALSE
    /\ sidebar_visible' = FALSE
    /\ timers' = pending

open_sidebar(pending) ==
    IF _sidebar_animating \/ sidebar_visible
    THEN timers' = pending /\ UNCHANGED <<sidebar_x, _sidebar_animating, sidebar_visible>>
    ELSE AnimOpen(-sidebar_width, TRUE, pending)

close_sidebar(pending) ==
    IF _sidebar_animating \/ ~sidebar_visible
    THEN close_sidebar_immediate_if_needed(pending)
    ELSE AnimClose(0, TRUE, pending)

toggle_sidebar(pending) ==
    IF _sidebar_animating
    THEN timers' = pending /\ UNCHANGED <<sidebar_x, _sidebar_animating, sidebar_visible>>
    ELSE IF sidebar_visible THEN close_sidebar(pending)
    ELSE open_sidebar(pending)

\* _on_hamburger_click
HamburgerClick ==
    /\ Len(timers) < MaxTimers
    /\ timers' = Append(timers, ToggleTimer)
    /\ event' = [h |-> "_on_hamburger_click"]
    /\ UNCHANGED <<sidebar_visible, _sidebar_animating, sidebar_x, ui_mode, trig_dropdown,
                   stats_dropdown, selected, engineVars>>

\* the event loop runs the i-th pending callback
TimerFires(i) ==
    /\ i \in DOMAIN timers
    /\ Due(timers, i)
    /\ IF timers[i].cb = "toggle_sidebar"
       THEN /\ toggle_sidebar(Without(timers, i))
            /\ selected' = FALSE
       ELSE /\ IF timers[i].of = "open_sidebar"
               THEN AnimOpen(timers[i].x, _sidebar_animating, Without(timers, i))
               ELSE AnimClose(timers[i].x, _sidebar_animating, Without(timers, i))
            /\ UNCHANGED selected
    /\ event' = [h |-> timers[i].cb]
    /\ UNCHANGED <<ui_mode, trig_dropdown, stats_dropdown, engineVars>>

\* _switch_to_mode
_switch_to_mode(m) == ui_mode' = m

\* _select_mode, the command of the two buttons of the sidebar
SelectMode(m) ==
    /\ close_sidebar_immediate_if_needed(timers)
    /\ _switch_to_mode(m)
    /\ selected' = TRUE
    /\ event' = [h |-> "_select_mode", m |-> m]
    /\ UNCHANGED <<trig_dropdown, stats_dropdown, engineVars>>

\* the key of the scientific keypad that shows the graphing view
GraphKey ==
    /\ ui_mode = "scientific"
    /\ _switch_to_mode("graphing")
    /\ event' = [h |-> "_switch_to_mode"]
    /\ UNCHANGED <<sidebar_visible, _sidebar_animating, sidebar_x, timers, trig_dropdown,
                   stats_dropdown, selected, engineVars>>

\* _open_trig_dropdown with the statistics dropdown left as it is
_open_trig_dropdown_beside_stats ==
    /\ trig_dropdown' = IF trig_dropdown # "None" THEN "None" ELSE "Toplevel"
    /\ UNCHANGED stats_dropdown

\* _open_trig_dropdown: the other dropdown is closed; then this one is closed if it
\* is open, and created if it is not
_open_trig_dropdown ==
    /\ stats_dropdown' = "None"
    /\ trig_dropdown' = IF trig_dropdown # "None" THEN "None" ELSE "Toplevel"

_open_stats_dropdown ==
    /\ trig_dropdown' = "None"
    /\ stats_dropdown' = IF stats_dropdown # "None" THEN "None" ELSE "Toplevel"

_close_trig_dropdown == trig_dropdown' = "None"
_close_stats_dropdown == stats_dropdown' = "None"

\* the two dropdowns as they are when a handler begins
Dropdowns == [trig |-> trig_dropdown, stats |-> stats_dropdown]

sidebarVars == <<sidebar_visible, _sidebar_animating, sidebar_x, timers, ui_mode, selected>>

\* the command of trig_btn and of trig_btn_graph
OpenTrigDropdown ==
    /\ _open_trig_dropdown
    /\ event' = [h |-> "_open_trig_dropdown", before |-> Dropdowns]
    /\ UNCHANGED <<sidebarVars, engineVars>>

\* the command of stats_btn and of stats_btn_graph
OpenStatsDropdown ==
    /\ _open_stats_dropdown
    /\ event' = [h |-> "_open_stats_dropdown", before |-> Dropdowns]
    /\ UNCHANGED <<sidebarVars, engineVars>>

\* _insert_with_autoclose, the command of the buttons of the dropdowns and of four
\* keys of the scientific keypad
InsertWithAutoclose ==
    /\ ui_mode = "scientific" \/ trig_dropdown # "None" \/ stats_dropdown # "None"
    /\ _close_trig_dropdown
    /\ _close_stats_dropdown
    /\ event' = [h |-> "_insert_with_autoclose", before |-> Dropdowns]
    /\ UNCHANGED <<sidebarVars, engineVars>>

\* where a click can land: the four toggle buttons, a widget inside a dropdown,
\* any other widget
Widgets ==
    {"trig_btn", "trig_btn_graph", "stats_btn", "stats_btn_graph",
     "in trig_dropdown", "in stats_dropdown", "elsewhere"}

\* the widgets on screen: the buttons of the view shown, the dropdowns that are open
OnScreen(w) ==
    CASE w \in {"trig_btn", "stats_btn"} -> ui_mode = "scientific"
      [] w \in {"trig_btn_graph", "stats_btn_graph"} -> ui_mode = "graphing"
      [] w = "in trig_dropdown" -> trig_dropdown # "None"
      [] w = "in stats_dropdown" -> stats_dropdown # "None"
      [] OTHER -> TRUE

\* _global_click, bound to every click of the left button
GlobalClick(w) ==
    /\ w \in Widgets /\ OnScreen(w)
    /\ LET trig_btn == IF ui_mode = "scientific" THEN "trig_btn" ELSE "trig_btn_graph"
           stats_btn == IF ui_mode = "scientific" THEN "stats_btn" ELSE "stats_btn_graph"
       IN  /\ IF trig_dropdown # "None" /\ ~(w = trig_btn \/ w = "in trig_dropdown")
              THEN _close_trig_dropdown
              ELSE UNCHANGED trig_dropdown
           /\ IF stats_dropdown # "None" /\ ~(w = stats_btn \/ w = "in stats_dropdown")
              THEN _close_stats_dropdown
              ELSE UNCHANGED stats_dropdown
    /\ event' = [h |-> "_global_click", w |-> w]
    /\ UNCHANGED <<sidebarVars, engineVars>>

\* <FocusOut> of a dropdown
FocusOut(w) ==
    /\ \/ w = "in trig_dropdown" /\ trig_dropdown # "None" /\ _close_trig_dropdown
                                 /\ UNCHANGED stats_dropdown
       \/ w = "in stats_dropdown" /\ stats_dropdown # "None" /\ _close_stats_dropdown
                                  /\ UNCHANGED trig_dropdown
    /\ event' = [h |-> "<FocusOut>", w |-> w]
    /\ UNCHANGED <<sidebarVars, engineVars>>

GuiInit == EngineInit /\ WindowInit /\ ~tieRaises /\ input = NoneV /\ memo = MemoOff

GuiNext ==
    \/ HamburgerClick
    \/ \E i \in 1..MaxTimers : TimerFires(i)
    \/ \E m \in UiModes : SelectMode(m)
    \/ GraphKey
    \/ OpenTrigDropdown
    \/ OpenStatsDropdown
    \/ InsertWithAutoclose
    \/ \E w \in Widgets : GlobalClick(w)
    \/ \E w \in {"in trig_dropdown", "in stats_dropdown"} : FocusOut(w)

SpecGui == GuiInit /\ [][GuiNext]_vars

(***************************************************************************)
(* Properties of calculate and evaluate_for_x on one input (SpecText)      *)
(***************************************************************************)
\* a string that starts with "Error: "
HasErrorPrefix(v) == v.t = "str" /\ v.s # <<>> /\ v.s[1] = "Error: "

\* C1: calculate never raises past its own boundary: whatever the input (any text,
\* any value that is not a string) and whatever fails while parsing or evaluating,
\* the call returns, and it returns the evaluated value or else a string; for an
\* input that is not a string it returns a string that starts with "Error: ".
C1_CalculateNeverRaises ==
    op = "calculate" =>
        LET r == TryBody(arg, <<>>, mode, tieRaises, <<0>>)
        IN  /\ outcome.out = "return"
            /\ \/ r.ok /\ outcome.v = r.v
               \/ ~r.ok /\ outcome.v.t = "str"
            /\ arg.t # "str" => HasErrorPrefix(outcome.v)

\* calculate was given a value that is not a string and returned the error string
C1_Witness ==
    /\ op = "calculate"
    /\ arg = IntV(5)
    /\ outcome = Returned(StrV(<<"Error: ", "Expression must be a string">>), <<>>)

\* C2: evaluate_for_x never raises and returns None on every failure: for a text
\* that does not parse, for an evaluation that fails (among them a native function
\* that fails), and for 1/x at x = 0; a result other than None is the value of an
\* evaluation that succeeded, never the exception object of a failure.
C2_EvaluateForXNoneOnFailure ==
    op = "evaluate_for_x" =>
        LET r == TryBody(arg, N_x :> x_value, mode, tieRaises, <<0>>)
        IN  /\ outcome.out = "return"
            /\ ~r.ok => outcome.v = NoneV
            /\ (arg.t = "str" /\ AstParse(PrepareText(arg.s)).st = "SyntaxError")
                   => outcome.v = NoneV
            /\ (arg = StrV(<<"1", "/", "x">>) /\ x_value = IntV(0)) => outcome.v = NoneV
            /\ outcome.v # NoneV => r.ok /\ outcome.v = r.v /\ outcome.v.t # "exc"

\* the last operation applied was a division or a modulo with a zero right operand
DividedByZero(log) ==
    /\ log # <<>>
    /\ log[Len(log)].e = "op"
    /\ log[Len(log)].op \in {"Div", "FloorDiv", "Mod"}
    /\ IsZero(log[Len(log)].args[2])

\* C3: when the evaluation divides or takes the modulo by zero (/, // or % with a
\* zero right operand), calculate returns exactly the string "Division by zero".
C3_DivisionByZeroString ==
    (op = "calculate" /\ outcome.out = "return" /\ DividedByZero(outcome.log))
        => outcome.v = StrV(<<"Division by zero">>)

\* C4: for every text that fails at lexing or parsing, calculate returns a string
\* that starts with "Error: "; the bare "Error" is not returned for it.
C4_ParseFailureHasPrefix ==
    (op = "calculate" /\ arg.t = "str" /\ AstParse(PrepareText(arg.s)).st = "SyntaxError")
        => outcome.out = "return" /\ HasErrorPrefix(outcome.v)

\* the nodes the evaluation visited that are a call of a function the function
\* table does not have, or a name the name table does not have
UnknownCalls(log, funcs) ==
    {i \in DOMAIN log : /\ log[i].e = "visit"
                        /\ log[i].node.k = "Call"
                        /\ log[i].node.func.k = "Name"
                        /\ LowerStr(log[i].node.func.id) \notin DOMAIN funcs}
UnknownNames(log, table) ==
    {i \in DOMAIN log : /\ log[i].e = "visit"
                        /\ log[i].node.k = "Name"
                        /\ LowerStr(log[i].node.id) \notin DOMAIN table}

\* C5: when the evaluation comes to a call of a function that is not in the function
\* table, or to a name that is not in the name table, calculate returns the string
\* "Error: Unknown function: <name>" resp. "Error: Unknown name: <name>": not a
\* value, not the bare "Error", not an exception.
C5_UnknownNamed ==
    (op = "calculate" /\ outcome.out # "none") =>
        /\ \A i \in UnknownCalls(outcome.log, _prepare_functions(mode)) :
               outcome = Returned(StrV(<<"Error: ", "Unknown function: ">>
                                       \o LowerStr(outcome.log[i].node.func.id)),
                                  outcome.log)
        /\ \A i \in UnknownNames(outcome.log, _prepare_names(<<>>)) :
               outcome = Returned(StrV(<<"Error: ", "Unknown name: ">>
                                       \o outcome.log[i].node.id),
                                  outcome.log)

\* calculate("Bar+1") came to the unknown name and returned the message naming it
C5_Witness ==
    /\ op = "calculate"
    /\ arg = StrV(<<"B", "a", "r", "+", "1">>)
    /\ UnknownNames(outcome.log, _prepare_names(<<>>)) # {}
    /\ outcome.out = "return"
    /\ outcome.v = StrV(<<"Error: ", "Unknown name: ", "B", "a", "r">>)

\* the last thing the evaluation did was to call mode with some arguments
CalledMode(log) ==
    /\ log # <<>>
    /\ log[Len(log)].e = "call"
    /\ log[Len(log)].f = <<"m", "o", "d", "e">>
    /\ log[Len(log)].args # <<>>
\* the values that occur most often among the arguments
MostCommon(args) ==
    LET Count(v) == Cardinality({k \in 1..Len(args) : args[k] = v})
    IN  {args[i] : i \in {k \in 1..Len(args) : \A j \in 1..Len(args) :
                                                  Count(args[j]) <= Count(args[k])}}

\* C10: mode(...) returns the most common argument when exactly one value has the
\* highest count, and the string "No unique mode" when two or more distinct values
\* tie for the highest count; it does not return one of the tied values.
C10_ModeSentinelOnTie ==
    (op = "calculate" /\ outcome.out = "return" /\ CalledMode(outcome.log)) =>
        LET top == MostCommon(outcome.log[Len(outcome.log)].args)
        IN  IF Cardinality(top) = 1 THEN outcome.v \in top ELSE outcome.v = NoUniqueMode

(***************************************************************************)
(* Properties of the engine under any sequence of calls (Spec)             *)
(***************************************************************************)
\* C6: the mode is "deg" at first and is "deg" or "rad" in every reachable state;
\* set_mode(m) makes the mode m when m is "deg" or "rad" and leaves it as it was
\* for any other value; calculate and evaluate_for_x do not change it.
C6_ModeDegOrRad ==
    /\ mode = "deg"
    /\ [](mode \in {"deg", "rad"})
    /\ [][/\ op' = "set_mode" =>
                mode' = IF arg'.s[1] \in {"deg", "rad"} THEN arg'.s[1] ELSE mode
          /\ op' # "set_mode" => mode' = mode]_vars

\* set_mode("grad") was called in mode "rad", which it left as it was
C6_Witness == op = "set_mode" /\ arg = StrV(<<"grad">>) /\ mode = "rad"

\* the call the state records, as memo keeps calls
ThisCall == [op |-> op, arg |-> arg, x_value |-> x_value, mode |-> mode]
\* the evaluation called rand or choice
UsedRandom(log) == \E i \in DOMAIN log : log[i].e = "call" /\ log[i].f \in
                       {<<"r", "a", "n", "d">>, <<"c", "h", "o", "i", "c", "e">>}

\* C9: evaluation is deterministic and carries no hidden state: a call of calculate,
\* or of evaluate_for_x with the same x, that repeats an earlier call (same
\* expression, same mode) returns the result the earlier call returned, whatever
\* calls were made in between and whatever the random generator would draw, for
\* expressions that do not use rand or choice.
C9_SameCallSameResult ==
    (memo # NoMemo /\ op \in {"calculate", "evaluate_for_x"} /\ ThisCall = memo.call
         /\ ~UsedRandom(memo.outcome.log))
        => outcome = memo.outcome

\* calculate("x") was called first, other calls followed, and calculate("x") again
\* gave the first result
C9_Witness ==
    /\ memo # NoMemo
    /\ memo.between
    /\ ThisCall = memo.call
    /\ op = "calculate"
    /\ arg = StrV(<<"x">>)
    /\ outcome = memo.outcome
    /\ outcome.v = StrV(<<"Error: ", "Unknown name: ", "x">>)

(***************************************************************************)
(* Arithmetic (SpecArith).  The value of an arithmetic text by the grammar *)
(* of the specification, read from the characters of the text:             *)
(*   Additive  := Multiplic ( ("+"|"-") Multiplic )*                       *)
(*   Multiplic := Unary ( ("*"|"/"|"//"|"%") Unary )*                      *)
(*   Unary     := ("+"|"-") Unary | Power                                  *)
(*   Power     := Primary ( "**" Unary )?        with "^" for "**" as well *)
(*   Primary   := Number | "(" Additive ")"                                *)
(* A reading is [ok, r, pos]: whether the rule matched, the value (or the  *)
(* failure) of what it matched, and the position after it.                 *)
(***************************************************************************)
RefNoMatch == [ok |-> FALSE]
RefMatch(r, pos) == [ok |-> TRUE, r |-> r, pos |-> pos]
RefAt(text, i) == IF i <= Len(text) THEN text[i] ELSE ""

\* the operator of the level that starts at text[i], "" when there is none
RefAddOp(text, i) == IF RefAt(text, i) \in {"+", "-"} THEN <<RefAt(text, i)>> ELSE <<>>
RefMulOp(text, i) ==
    CASE RefAt(text, i) = "*" /\ RefAt(text, i + 1) # "*" -> <<"*">>
      [] RefAt(text, i) = "/" /\ RefAt(text, i + 1) = "/" -> <<"/", "/">>
      [] RefAt(text, i) = "/" /\ RefAt(text, i + 1) # "/" -> <<"/">>
      [] RefAt(text, i) = "%" -> <<"%">>
      [] OTHER -> <<>>
RefPowOp(text, i) ==
    CASE RefAt(text, i) = "^" -> <<"^">>
      [] RefAt(text, i) = "*" /\ RefAt(text, i + 1) = "*" -> <<"*", "*">>
      [] OTHER -> <<>>

\* standard arithmetic on two values, the left one first
RefApply(o, l, r) ==
    IF ~l.ok THEN l
    ELSE IF ~r.ok THEN r
    ELSE CASE o = <<"+">> -> PyAdd(l.v, r.v)
           [] o = <<"-">> -> PySub(l.v, r.v)
           [] o = <<"*">> -> PyMul(l.v, r.v)
           [] o = <<"/">> -> PyTrueDiv(l.v, r.v)
           [] o = <<"/", "/">> -> PyFloorDiv(l.v, r.v)
           [] o = <<"%">> -> PyMod(l.v, r.v)
           [] o \in {<<"^">>, <<"*", "*">>} -> PyPow(l.v, r.v)
RefSign(o, r) == IF ~r.ok THEN r ELSE IF o = "-" THEN PyNeg(r.v) ELSE PyPos(r.v)

RECURSIVE RefAdditive(_, _), RefAddRest(_, _), RefMultiplic(_, _), RefMulRest(_, _)
RECURSIVE RefUnary(_, _), RefPower(_, _), RefPrimary(_, _)

RefAdditive(text, i) == RefAddRest(text, RefMultiplic(text, i))

\* acc is the reading of the operands so far, folded from the left
RefAddRest(text, acc) ==
    IF ~acc.ok THEN RefNoMatch
    ELSE LET o == RefAddOp(text, acc.pos)
             Next1(m) == IF ~m.ok THEN RefNoMatch
                         ELSE RefAddRest(text, RefMatch(RefApply(o, acc.r, m.r), m.pos))
         IN  IF o = <<>> THEN acc ELSE Next1(RefMultiplic(text, acc.pos + Len(o)))

RefMultiplic(text, i) == RefMulRest(text, RefUnary(text, i))

RefMulRest(text, acc) ==
    IF ~acc.ok THEN RefNoMatch
    ELSE LET o == RefMulOp(text, acc.pos)
             Next1(u) == IF ~u.ok THEN RefNoMatch
                         ELSE RefMulRest(text, RefMatch(RefApply(o, acc.r, u.r), u.pos))
         IN  IF o = <<>> THEN acc ELSE Next1(RefUnary(text, acc.pos + Len(o)))

RefUnary(text, i) ==
    LET Signed(u) == IF ~u.ok THEN RefNoMatch
                     ELSE RefMatch(RefSign(RefAt(text, i), u.r), u.pos)
    IN  IF RefAt(text, i) \in {"+", "-"} THEN Signed(RefUnary(text, i + 1))
        ELSE RefPower(text, i)

RefPower(text, i) ==
    LET Raised1(p, u) == IF ~u.ok THEN RefNoMatch
                         ELSE RefMatch(RefApply(<<"^">>, p.r, u.r), u.pos)
        Base(p) == IF ~p.ok THEN RefNoMatch
                   ELSE IF RefPowOp(text, p.pos) = <<>> THEN p
                   ELSE Raised1(p, RefUnary(text, p.pos + Len(RefPowOp(text, p.pos))))
    IN  Base(RefPrimary(text, i))

RefPrimary(text, i) ==
    LET j == SpanEnd(text, i, Digits)
        Closed(e) == IF e.ok /\ RefAt(text, e.pos) = ")" THEN RefMatch(e.r, e.pos + 1)
                     ELSE RefNoMatch
    IN  IF RefAt(text, i) \in Digits
        \* a number is written without a needless leading zero
        THEN IF RefAt(text, i) = "0" /\ j > i + 1 THEN RefNoMatch
             ELSE IF DecimalVal(text, i, j) < 0 THEN RefMatch(Beyond, j)
             ELSE RefMatch(Ok(IntV(DecimalVal(text, i, j))), j)
        ELSE IF RefAt(text, i) = "(" THEN Closed(RefAdditive(text, i + 1))
        ELSE RefNoMatch

\* the value of the whole text, spaces apart; NotArithmetic when the text is not
\* an arithmetic expression of the grammar
NotArithmetic == Raise("NotArithmetic", <<>>)
RefValue(text) ==
    LET Whole(e, n) == IF e.ok /\ e.pos = n + 1 THEN e.r ELSE NotArithmetic
    IN  Whole(RefAdditive(RemoveSpaces(text), 1), Len(RemoveSpaces(text)))

\* C7: for every well-formed arithmetic expression over integer literals, calculate
\* yields the value the grammar gives it: * / // % bind tighter than + -, the
\* binary operators associate to the left, power to the right, a unary minus has
\* the power on its right as its operand, and ^ is power.
C7_ArithmeticByGrammar ==
    (op = "calculate" /\ arg.t = "str") =>
        LET Agrees(ref) == ref.ok => outcome = Returned(ref.v, outcome.log)
        IN  Agrees(RefValue(arg.s))

\* a reading of ^ as power, to the right: 2^3^2 is 2^(3^2) = 512, and -2^2 is -(2^2)
C7_Witness ==
    /\ op = "calculate"
    /\ arg = StrV(<<"2", "^", "3", "^", "2">>)
    /\ RefValue(arg.s) = Ok(IntV(512))
    /\ RefValue(<<"-", "2", "^", "2">>) = Ok(IntV(-4))
    /\ RefValue(<<"2", "+", "3", "*", "4">>) = Ok(IntV(14))
    /\ outcome.out = "return"
    /\ outcome.v = IntV(512)

(***************************************************************************)
(* Chained comparisons (SpecChain).  The operands drawn are constants and  *)
(* lists of constants, whose evaluation cannot fail.                       *)
(***************************************************************************)
\* the operands a0 .. an of a Compare node, and their values
OperandsOf(node) == <<node.left>> \o node.comparators
OperandValue(n) ==
    IF n.k = "Constant" THEN n.value ELSE ListV([j \in 1..Len(n.elts) |-> n.elts[j].value])
\* the visits the evaluation of one operand makes
OperandVisits(n) ==
    IF n.k = "Constant" THEN <<VisitEv(n)>>
    ELSE <<VisitEv(n)>> \o [j \in 1..Len(n.elts) |-> VisitEv(n.elts[j])]

\* the result of pair i: op_i between the values of a(i-1) and a(i)
PairResult(node, i) ==
    PyCompare(node.ops[i], OperandValue(OperandsOf(node)[i]),
              OperandValue(OperandsOf(node)[i + 1]))
PairEvent(node, i) ==
    OpEv(node.ops[i], <<OperandValue(OperandsOf(node)[i]),
                        OperandValue(OperandsOf(node)[i + 1])>>)
\* op_i is applied: always (eager), or only while every earlier pair was true
PairApplied(node, i, eager) ==
    eager \/ \A j \in 1..(i - 1) : PairResult(node, j) = Ok(BoolV(TRUE))
\* the pairs that are applied and cannot be compared; the evaluation fails at
\* the first of them
FailingPairs(node, eager) ==
    {i \in 1..Len(node.ops) : PairApplied(node, i, eager) /\ ~PairResult(node, i).ok}
LastPair(node, eager) ==
    IF FailingPairs(node, eager) = {} THEN Len(node.ops)
    ELSE CHOOSE i \in FailingPairs(node, eager) : \A j \in FailingPairs(node, eager) : i <= j

\* what the evaluation does from pair i on: a(i) is evaluated, then op_i applied
RECURSIVE PairSteps(_, _, _)
PairSteps(node, i, eager) ==
    IF i > LastPair(node, eager) THEN <<>>
    ELSE OperandVisits(node.comparators[i])
         \o (IF PairApplied(node, i, eager) THEN <<PairEvent(node, i)>> ELSE <<>>)
         \o PairSteps(node, i + 1, eager)

\* the call as the chained comparison is described: the whole log and the result
ChainOutcome(node, eager) ==
    Returned(IF FailingPairs(node, eager) # {} THEN StrV(<<"Error">>)
             ELSE BoolV(\A i \in 1..Len(node.ops) : PairResult(node, i) = Ok(BoolV(TRUE))),
             <<VisitEv([k |-> "Expression", body |-> node]), VisitEv(node)>> \o OperandVisits(node.left)
             \o PairSteps(node, 1, eager))

CallResult ==
    TryBody(arg, IF op = "evaluate_for_x" THEN N_x :> x_value ELSE <<>>, mode, tieRaises, <<0>>)

\* a number, a boolean, the sentinel of mode, or a list or tuple of such values
RECURSIVE IsDomainValue(_)
IsDomainValue(v) ==
    \/ IsNumber(v)
    \/ v.t = "bool"
    \/ v = NoUniqueMode
    \/ IsSeqV(v) /\ \A i \in DOMAIN v.e : IsDomainValue(v.e[i])

\* C11: every value a successful evaluation produces is a number, a boolean, the
\* sentinel "No unique mode", or a list or tuple of such values: no evaluation gives
\* an exception object, None, or another string.
C11_ValuesInDomain ==
    (op \in {"calculate", "evaluate_for_x"} /\ CallResult.ok)
        => outcome.out = "return" /\ IsDomainValue(outcome.v)

\* the evaluation called mean without an argument, or std, stdev or variance with
\* fewer than two
TooFewForStatistics(log) ==
    \E i \in DOMAIN log :
        /\ log[i].e = "call"
        /\ \/ log[i].f = <<"m", "e", "a", "n">> /\ Len(log[i].args) = 0
           \/ /\ log[i].f \in {<<"s", "t", "d">>, <<"s", "t", "d", "e", "v">>,
                               <<"v", "a", "r", "i", "a", "n", "c", "e">>}
              /\ Len(log[i].args) < 2

\* C12: a call of mean with no argument, or of std, stdev or variance with fewer
\* than two, is a failure: calculate returns a string that starts with "Error: "
\* and evaluate_for_x returns None; neither returns a value for it.
C12_TooFewArgumentsFail ==
    (outcome.out = "return" /\ TooFewForStatistics(outcome.log)) =>
        /\ op = "calculate" => HasErrorPrefix(outcome.v)
        /\ op = "evaluate_for_x" => outcome.v = NoneV

(***************************************************************************)
(* Properties of the lookup tables and the angle mode (SpecMode)           *)
(***************************************************************************)
\* the trigonometric function behind each of the six names
TrigBase(f) ==
    CASE f \in {<<"s", "i", "n">>, <<"c", "s", "c">>} -> "sin"
      [] f \in {<<"c", "o", "s">>, <<"s", "e", "c">>} -> "cos"
      [] f \in {<<"t", "a", "n">>, <<"c", "o", "t">>} -> "tan"

\* f(a) in mode m: the function of a, converted to radians in mode "deg" and as it
\* is in mode "rad"; for sec, csc and cot 1 divided by that
TrigByMode(f, a, m) ==
    LET t == MathTrig(TrigBase(f), IF m = "deg" THEN Radians(a) ELSE a)
    IN  IF f \in {<<"s", "i", "n">>, <<"c", "o", "s">>, <<"t", "a", "n">>} THEN Ok(t)
        ELSE IF IsExact(t) THEN PyTrueDiv(IntV(1), t)
        ELSE Ok(SymV("truediv", <<IntV(1), t>>))

\* the evaluation ended with a call of one of the six functions on one number
EndedWithTrig(log) ==
    /\ log # <<>>
    /\ log[Len(log)].e = "call"
    /\ log[Len(log)].f \in TrigNames
    /\ Len(log[Len(log)].args) = 1
    /\ IsNumber(log[Len(log)].args[1])

\* C13: the mode governs sin, cos, tan, sec, csc and cot alike: with the mode m of
\* the last successful set_mode ("deg" before any), a call evaluates the function
\* of the argument converted from degrees to radians when m is "deg" and of the
\* argument as it is when m is "rad"; sec, csc and cot are 1/cos, 1/sin and 1/tan
\* of that same argument, and fail where that value is zero.
C13_TrigFollowsMode ==
    /\ []((op \in {"calculate", "evaluate_for_x"} /\ EndedWithTrig(outcome.log)) =>
            LET call == outcome.log[Len(outcome.log)]
                Is(expected) ==
                    /\ outcome.out = "return"
                    /\ IF expected.ok THEN outcome.v = expected.v
                       ELSE IF op = "calculate" THEN HasErrorPrefix(outcome.v)
                       ELSE outcome.v = NoneV
            IN  Is(TrigByMode(call.f, call.args[1], mode)))
    /\ [][IF op' = "set_mode" /\ arg'.s[1] \in {"deg", "rad"} THEN mode' = arg'.s[1]
          ELSE mode' = mode]_vars

\* after set_mode("rad"), sec(90) was evaluated as 1/cos(90), 90 taken as radians
C13_Witness ==
    /\ op = "calculate"
    /\ arg = StrV(<<"s", "e", "c", "(", "9", "0", ")">>)
    /\ mode = "rad"
    /\ EndedWithTrig(outcome.log)
    /\ outcome.v = SymV("truediv", <<IntV(1), SymV("cos", <<IntV(90)>>)>>)

\* the call the state records, made on the text in lower case
LowerCaseCall ==
    IF op = "calculate" THEN calculate(StrV(LowerStr(arg.s)), mode, tieRaises, <<0>>)
    ELSE evaluate_for_x(StrV(LowerStr(arg.s)), x_value, mode, tieRaises, <<0>>)

\* C14: functions and names are looked up without regard to case: a text whose
\* functions and names are in the tables (pi, e and the x of evaluate_for_x among
\* them) gives, with any of its letters in upper case, the result of the text in
\* lower case, in calculate and in evaluate_for_x.
C14_LookupIgnoresCase ==
    (op \in {"calculate", "evaluate_for_x"} /\ arg.t = "str") =>
        LET Same(lower) ==
                (/\ UnknownCalls(lower.log, _prepare_functions(mode)) = {}
                 /\ UnknownNames(lower.log, names) = {})
                    => outcome.out = lower.out /\ outcome.v = lower.v
        IN  Same(LowerCaseCall)

\* evaluate_for_x("X+E", 2) returned the sum of the binding of x and of e
C14_Witness ==
    /\ op = "evaluate_for_x"
    /\ arg = StrV(<<"X", "+", "E">>)
    /\ x_value = IntV(2)
    /\ outcome.out = "return"
    /\ outcome.v = SymV("add", <<IntV(2), SymV("e", <<>>)>>)

(***************************************************************************)
(* Properties of and / or (SpecBool)                                       *)
(***************************************************************************)
\* what the evaluation of an operand does, event by event: a constant, a list of
\* rand() calls, or again an and/or
RECURSIVE BoolSteps(_)
BoolSteps(n) ==
    LET RECURSIVE Each(_, _)
        Each(nodes, i) ==
            IF i > Len(nodes) THEN <<>> ELSE BoolSteps(nodes[i]) \o Each(nodes, i + 1)
    IN  CASE n.k = "Constant" -> <<VisitEv(n)>>
          [] n.k = "Call" -> <<VisitEv(n), CallEv(LowerStr(n.func.id), <<>>)>>
          [] n.k = "List" -> <<VisitEv(n)>> \o Each(n.elts, 1)
          [] n.k = "BoolOp" -> <<VisitEv(n)>> \o Each(n.values, 1)

\* the truth of an operand
RECURSIVE BoolTruth(_)
BoolTruth(n) ==
    CASE n.k = "Constant" -> Truthy(n.value)
      [] n.k = "List" -> n.elts # <<>>
      [] n.k = "BoolOp" ->
            IF n.op = "And" THEN \A i \in DOMAIN n.values : BoolTruth(n.values[i])
            ELSE \E i \in DOMAIN n.values : BoolTruth(n.values[i])

\* C15: and / or are eager: all the n operands are evaluated, each exactly once and
\* from the left, whatever the truth of the earlier ones (n operands that call
\* rand() make n calls of it), and the result is the boolean AND resp. OR of the
\* truth of the operands.
C15_BoolOpEager ==
    (op \in {"calculate", "evaluate_for_x"}
            /\ AstParse(PrepareText(arg.s)).node.body.k = "BoolOp") =>
        LET Eager(node) ==
                outcome = Returned(BoolV(BoolTruth(node)),
                                   <<VisitEv([k |-> "Expression", body |-> node])>>
                                       \o BoolSteps(node))
        IN  Eager(AstParse(PrepareText(arg.s)).node.body)

\* (1)or[rand()]or[rand()]: true from the first operand on, and rand was called twice
C15_Witness ==
    /\ op = "calculate"
    /\ arg = StrV(<<"(", "1", ")", "o", "r", "[", "r", "a", "n", "d", "(", ")", "]",
                    "o", "r", "[", "r", "a", "n", "d", "(", ")", "]">>)
    /\ outcome.out = "return"
    /\ outcome.v = BoolV(TRUE)
    /\ Len(SelectSeq(outcome.log, LAMBDA ev : ev.e = "call")) = 2

(***************************************************************************)
(* Sequences under arithmetic, nodes without a visitor, keyword arguments  *)
(* and failing sub-expressions in one call (SpecText)                      *)
(***************************************************************************)
\* the operations of the evaluation that apply an arithmetic operator (binary or
\* unary) to a list or a tuple
SequenceArithmetic(log) ==
    {i \in DOMAIN log : /\ log[i].e = "op"
                        /\ log[i].op \in SupportedBinOps \cup {"UAdd", "USub"}
                        /\ \E j \in DOMAIN log[i].args : IsSeqV(log[i].args[j])}

\* C16: an arithmetic operator (+, -, *, /, //, %, **, unary + and -) applied to a
\* list or a tuple is a failure: calculate returns a string that starts with
\* "Error: ", and no sequence comes out of an arithmetic operator.
C16_SequenceArithmeticFails ==
    (op = "calculate" /\ outcome.out = "return" /\ SequenceArithmetic(outcome.log) # {})
        => HasErrorPrefix(outcome.v)

\* the classes of node SafeEvaluator has a visitor for
VisitorKinds ==
    {"Expression", "Constant", "UnaryOp", "BinOp", "BoolOp", "Compare", "Call", "Name",
     "List", "Tuple"}

\* what the call returns for a failure with the message m
FailureWith(m) == IF op = "calculate" THEN StrV(<<"Error: ">> \o m) ELSE NoneV

\* C17: the evaluation fails closed: a node of a class without a visitor (a
\* subscript, a starred argument, ...) ends the evaluation with the EvalError
\* "Unsupported expression: <class>", and so does a call whose callee is not a plain
\* name, with "Only direct function calls allowed"; nothing below such a node is
\* evaluated, and the only functions called are entries of the function table.
C17_FailsClosed ==
    (op \in {"calculate", "evaluate_for_x"} /\ outcome.out = "return") =>
        \A i \in DOMAIN outcome.log :
            LET ev == outcome.log[i]
            IN  /\ (ev.e = "visit" /\ ev.node.k \notin VisitorKinds) =>
                       /\ i = Len(outcome.log)
                       /\ outcome.v = FailureWith(<<"Unsupported expression: ", ev.node.k>>)
                /\ (ev.e = "visit" /\ ev.node.k = "Call" /\ ev.node.func.k # "Name") =>
                       /\ i = Len(outcome.log)
                       /\ outcome.v = FailureWith(<<"Only direct function calls allowed">>)
                /\ ev.e = "call" => ev.f \in DOMAIN _prepare_functions(mode)

\* max(*[1,2]): the evaluation ended at the starred argument
C17_Witness ==
    /\ op = "calculate"
    /\ arg = StrV(<<"m", "a", "x", "(", "*", "[", "1", ",", "2", "]", ")">>)
    /\ outcome.log[Len(outcome.log)].e = "visit"
    /\ outcome.log[Len(outcome.log)].node.k = "Starred"
    /\ outcome.v = StrV(<<"Error: ", "Unsupported expression: ", "Starred">>)

\* the calls with keyword arguments the evaluation came to
KeywordCalls(log) ==
    {i \in DOMAIN log : /\ log[i].e = "visit"
                        /\ log[i].node.k = "Call"
                        /\ log[i].node.keywords # <<>>}

\* C18: a call written with a keyword argument, as round(3/2, ndigits=1) or
\* rand(k=1), does not evaluate successfully: calculate returns an error string
\* and evaluate_for_x None; it is not evaluated as if the keyword were not there.
C18_KeywordArgumentsFail ==
    (outcome.out = "return" /\ KeywordCalls(outcome.log) # {}) =>
        /\ op = "calculate" =>
               outcome.v.t = "str" /\ outcome.v.s # <<>> /\ outcome.v.s[1] \in {"Error: ", "Error"}
        /\ op = "evaluate_for_x" => outcome.v = NoneV

\* the evaluation of the node the evaluation visited at position i of the log,
\* made on its own with the tables of the call
AloneAt(i) ==
    Visit(outcome.log[i].node,
          [funcs |-> _prepare_functions(mode), names |-> names, mode |-> mode,
           tieRaises |-> tieRaises, draws |-> <<0>>], <<>>)

\* C20: the failure of a sub-expression goes up unchanged: when an operand, an
\* argument or an element fails, nothing is applied to it and nothing is
\* evaluated after it (the evaluation ends with the events of the failing
\* sub-expression), and the failure of the whole is that of the sub-expression,
\* with its reason as it was, which is what calculate reports after "Error: ".
C20_FailurePropagatesUnchanged ==
    (op \in {"calculate", "evaluate_for_x"} /\ EvaluatorBuilt(arg)) =>
        \A i \in DOMAIN outcome.log :
            outcome.log[i].e = "visit" =>
                LET Whole(r) ==
                        LET Same(sub) ==
                                ~sub.ok =>
                                    /\ ~r.ok /\ r.ty = sub.ty /\ r.m = sub.m
                                    /\ SubSeq(outcome.log, i, Len(outcome.log)) = sub.log
                                    /\ (op = "calculate" /\ sub.ty = "EvalError") =>
                                           outcome.v = StrV(<<"Error: ">> \o sub.m)
                        IN  Same(AloneAt(i))
                IN  Whole(CallResult)

\* abs(sqrt(-1)): sqrt failed for the argument -1, abs was not called, and
\* calculate reported the failure of sqrt
C20_Witness ==
    /\ op = "calculate"
    /\ arg = StrV(<<"a", "b", "s", "(", "s", "q", "r", "t", "(", "-", "1", ")", ")">>)
    /\ outcome.log[Len(outcome.log)] = CallEv(<<"s", "q", "r", "t">>, <<IntV(-1)>>)
    /\ outcome.v = StrV(<<"Error: ">> \o DomainMsg)

\* the tokens of a text in which spaces separate tokens: each stretch between
\* spaces is tokenized on its own ("^" standing for "**")
RECURSIVE SpacedTokens(_)
SpacedTokens(text) ==
    LET Stretch(n) ==
            Tokenize(CaretToPower(SubSeq(text, 1, n)), 1)
                \o (IF n < Len(text) THEN SpacedTokens(SubSeq(text, n + 2, Len(text))) ELSE <<>>)
    IN  IF text = <<>> THEN <<>>
        ELSE IF \E i \in DOMAIN text : text[i] = " "
        THEN Stretch((CHOOSE i \in DOMAIN text : text[i] = " " /\ \A j \in 1..(i - 1) : text[j] # " ") - 1)
        ELSE Stretch(Len(text))

\* the evaluation of the token sequence of the call's text
SpacedResult ==
    LET Evaluate(parsed) ==
            IF ~parsed.ok THEN Raised("SyntaxError", <<"invalid syntax">>, <<>>)
            ELSE Visit([k |-> "Expression", body |-> parsed.node],
                       [funcs |-> _prepare_functions(mode),
                        names |-> _prepare_names(IF op = "evaluate_for_x" THEN N_x :> x_value
                                                 ELSE <<>>),
                        mode |-> mode, tieRaises |-> tieRaises, draws |-> <<0>>], <<>>)
        Parse(toks) ==
            IF \E i \in 1..Len(toks) : toks[i].k = "ERR"
            THEN Raised("SyntaxError", <<"invalid syntax">>, <<>>)
            ELSE Evaluate(ParseTop(toks, 1, <<>>, 0))
    IN  Parse(SpacedTokens(arg.s))

\* C21: spaces are insignificant: the result of a call on a text is the result of
\* evaluating the tokens of the text, with the spaces as separators and nothing
\* else; a space does not join what it separates (1 2 stays two numbers, a syntax
\* error; "1 and 2" and "not 1" keep their keyword).
C21_SpacesSeparateTokens ==
    (op \in {"calculate", "evaluate_for_x"} /\ arg.t = "str") =>
        LET Same(r, tokens) ==
                /\ outcome.out = "return"
                /\ r.ok = tokens.ok
                /\ tokens.ok => outcome.v = tokens.v
                /\ ~tokens.ok => r.ty = tokens.ty /\ r.m = tokens.m
        IN  Same(CallResult, SpacedResult)

(***************************************************************************)
(* The name table from call to call (Spec)                                 *)
(***************************************************************************)
\* C19: the name table is built anew for each call and no binding outlives its
\* call: the table of a calculate holds pi and e and nothing else, the table of
\* evaluate_for_x(expr, v) holds pi, e and x = v and nothing else, so that
\* calculate("x") is an unknown-name failure also after evaluate_for_x calls; and
\* no calculate or evaluate_for_x changes the mode.
C19_FreshNamesEachCall ==
    /\ []((op = "calculate" /\ EvaluatorBuilt(arg)) =>
              /\ DOMAIN names = {<<"p", "i">>, <<"e">>}
              /\ arg = StrV(N_x) =>
                     outcome.v = StrV(<<"Error: ", "Unknown name: ">> \o N_x))
    /\ []((op = "evaluate_for_x" /\ EvaluatorBuilt(arg)) =>
              /\ DOMAIN names = {<<"p", "i">>, <<"e">>, N_x}
              /\ names[N_x] = x_value
              /\ arg = StrV(N_x) => outcome.v = x_value)
    /\ [][op' \in {"calculate", "evaluate_for_x"} => mode' = mode]_vars

\* evaluate_for_x("x", 2) returned 2, and a later calculate("x") found no x
C19_Witness ==
    /\ memo # NoMemo
    /\ memo.call.op = "evaluate_for_x"
    /\ memo.call.arg = StrV(N_x)
    /\ memo.outcome.v = IntV(2)
    /\ op = "calculate"
    /\ arg = StrV(N_x)
    /\ outcome.v = StrV(<<"Error: ", "Unknown name: ">> \o N_x)

(***************************************************************************)
(* The mode of an evaluation during which set_mode is called (SpecRace)    *)
(***************************************************************************)
\* the outcome of the evaluation that ended last, had the mode been, throughout, the
\* one the engine had when the evaluation built its function table
OutcomeAtBuiltMode ==
    IF running.op = "calculate" THEN calculate(arg, running.built, tieRaises, <<0>>)
    ELSE evaluate_for_x(arg, running.x_value, running.built, tieRaises, <<0>>)

\* C22: the mode is read once, when an evaluation starts: whatever calls of set_mode
\* are made while calculate or evaluate_for_x runs, every call of sin, cos, tan, sec,
\* csc and cot of the expression uses the mode the engine had when the function table
\* was built, so the evaluation ends as it would have with that mode throughout.
C22_ModeReadOnce ==
    (running.st = "done" /\ op \in {"calculate", "evaluate_for_x"}) =>
        outcome = OutcomeAtBuiltMode

(***************************************************************************)
(* Properties of the sidebar and of the dropdowns (SpecGui)                *)
(***************************************************************************)
\* the pending steps of animations
AnimPending == {i \in DOMAIN timers : timers[i].cb = "anim"}

\* C23: the animations of the sidebar never overlap: whatever the order of the clicks
\* on the hamburger button, the selections of a mode and the callbacks of the timers,
\* at most one step of an animation is pending, and one is pending only while
\* _sidebar_animating is True.
C23_AnimationsNeverOverlap ==
    /\ Cardinality(AnimPending) <= 1
    /\ AnimPending # {} => _sidebar_animating

\* C24: after _select_mode(m), whenever it is called (also during an animation), the
\* sidebar is off-screen with sidebar_visible and _sidebar_animating False, and it
\* remains so until toggle_sidebar runs again: no callback of a timer moves it back or
\* sets sidebar_visible; and the view shown is m.
C24_SelectModeHidesSidebar ==
    /\ selected =>
            sidebar_x = -sidebar_width /\ ~sidebar_visible /\ ~_sidebar_animating
    /\ event.h = "_select_mode" => ui_mode = event.m

\* C25: the two dropdowns are never open together, whatever the sequence of
\* _open_trig_dropdown, _open_stats_dropdown, _insert_with_autoclose, clicks and
\* losses of focus; _open_trig_dropdown (_open_stats_dropdown) called while its
\* dropdown is open closes it; and _insert_with_autoclose closes both.
C25_DropdownsExclusive ==
    /\ ~(trig_dropdown # "None" /\ stats_dropdown # "None")
    /\ (event.h = "_open_trig_dropdown" /\ event.before.trig # "None") =>
            trig_dropdown = "None"
    /\ (event.h = "_open_stats_dropdown" /\ event.before.stats # "None") =>
            stats_dropdown = "None"
    /\ event.h = "_insert_with_autoclose" =>
            trig_dropdown = "None" /\ stats_dropdown = "None"

\* the trigonometry dropdown has been opened while the statistics dropdown was open
C25_Witness ==
    /\ event.h = "_open_trig_dropdown"
    /\ event.before.stats # "None"
    /\ trig_dropdown # "None" /\ stats_dropdown = "None"

====
